---- MODULE Spec2Model ----
(***************************************************************************)
(* A model of the Solidity front-end: the parse driver (crates/sema), the  *)
(* cooked lexer (crates/parse/src/lexer) and the statement parser's        *)
(* optional-items helper (crates/parse/src/parser/stmt.rs).                *)
(*                                                                         *)
(* Several specifications share the module: SpecSema (the loader and the   *)
(* sort, from parsed inputs), SpecDriver (parse_and_resolve with every     *)
(* session setting and error outcome), SpecLexer (the lexer on all short   *)
(* texts of operators, comments and strings), SpecLexerDoc (on doc         *)
(* comments), SpecLexerUnk (on unknown characters), SpecLexerLit (on       *)
(* quoted literals) and SpecParser (the parser helper).  Each one keeps    *)
(* the variables of the other components at their idle values.             *)
(*                                                                         *)
(* SourceIds, item ids and byte positions are 0-based as in the code; a    *)
(* TLA+ sequence s holds the element of index i at s[i + 1].               *)
(***************************************************************************)
EXTENDS Integers, Sequences, FiniteSets, TLC

(***************************************************************************)
(* Bounds of the model.                                                    *)
(***************************************************************************)
\* Number of distinct file handles the resolver can hand out.
NFiles == 4
\* Total number of import items over all parsed files.
MaxItems == 3

\* Number of files loaded before parse_and_resolve is called.
MaxLoad == 2
\* Number of loads that fail before parse_and_resolve is called.
MaxFailedLoads == 1
\* Total number of errors the lexer and the parser emit and go on, over all
\* parsed files.
MaxRecovered == 1

Files == 0 .. (NFiles - 1)

\* An import item of a source unit: the file it resolves to (the file's
\* handle), or Unres when the resolver rejects its path.  Items that are no
\* imports are left out: resolve_imports filters them away.
Unres == -1
ItemKinds == Files \cup {Unres}

SeqsUpTo(S, n) == UNION {[1 .. k -> S] : k \in 0 .. n}

RECURSIVE SumRec(_, _)
SumRec(f, S) ==
    IF S = {} THEN 0
    ELSE LET x == CHOOSE y \in S : TRUE
         IN f[x].rec + SumRec(f, S \ {x})

RECURSIVE SumLens(_, _)
SumLens(f, S) ==
    IF S = {} THEN 0
    ELSE LET x == CHOOSE y \in S : TRUE
         IN Len(f[x].items) + SumLens(f, S \ {x})

VARIABLES
    \* ---- parse driver (crates/sema/src/lib.rs) ----
    sess,        \* Session: [yul, stop_after_parsing, sequential]
    content,     \* what each file holds, drawn when the file is first parsed
    sources,     \* Sources::sources : IndexVec<SourceId, Source>
    pc,          \* position inside load / parse_and_resolve
    cur,         \* parse_sequential: the loop counter i
    start,       \* parse_parallel: start
    base,        \* parse_parallel: base
    pending,     \* parse_parallel: local indices of the wave's running tasks
    taskOut,     \* parse_parallel: resolved imports each task produced
    tasks,       \* parse_parallel: how far each task of the wave has come
    nErrors,     \* DiagCtxt: number of error diagnostics emitted
    loadErrs,    \* the errors emitted before parse_and_resolve was called
    result,      \* what parse_and_resolve returned: "none" | "ok" | "err"
    initial,     \* the sources vector when the parse step was entered
    parseCalls,  \* number of parse_one calls per file
    loaderSteps, \* number of steps the loading loops have taken
    preSort      \* the sources vector right before topo_sort ran

semaVars == <<sess, content, sources, pc, cur, start, base, pending, taskOut,
              tasks, nErrors, loadErrs, result, initial, parseCalls, loaderSteps,
              preSort>>

VARIABLES
    \* ---- lexer (crates/parse/src/lexer/mod.rs) ----
    lexer,       \* the Lexer struct: start_pos, pos, src, token, override_span,
                 \* nbsp_is_whitespace
    diags,       \* DiagCtxt: the diagnostics the lexer emitted, in order
    returned,    \* the tokens next_token has returned so far, in order
    bumps,       \* what every call of bump produced, in order
    callBumps,   \* how many times each next_token call called bump, in order
    lexStatus    \* "ok" | "panic" (a slice out of range) | "fatal" (aborted)

lexVars == <<lexer, diags, returned, bumps, callBumps, lexStatus>>

VARIABLES
    \* ---- parser (crates/parse/src/parser/stmt.rs) ----
    parser,      \* the Parser: its token stream and the index of the current token
    pout,        \* parse_optional_items_seq: the list returned
    pstatus      \* "ready" | "ok" | "err"

parVars == <<parser, pout, pstatus>>

vars == <<semaVars, lexVars, parVars>>

(***************************************************************************)
(* Sources (crates/sema/src/lib.rs)                                        *)
(***************************************************************************)
\* Source::new(file): unparsed, no imports.
NewSource(file) == [file |-> file, ast |-> "none", imports |-> <<>>]

\* The id of the first source holding `file`, or -1.
find_file(srcs, file) ==
    IF \E i \in 1 .. Len(srcs) : srcs[i].file = file
    THEN (CHOOSE i \in 1 .. Len(srcs) :
              /\ srcs[i].file = file
              /\ \A j \in 1 .. (i - 1) : srcs[j].file # file) - 1
    ELSE -1

\* A faulty add_file that pushes without looking for the handle.
add_file_nodedup(srcs, file) ==
    [srcs |-> Append(srcs, NewSource(file)), id |-> Len(srcs)]

\* A faulty add_file that puts a new source in front of the others.
add_file_push_front(srcs, file) ==
    IF find_file(srcs, file) >= 0
    THEN [srcs |-> srcs, id |-> find_file(srcs, file)]
    ELSE [srcs |-> <<NewSource(file)>> \o srcs, id |-> 0]

\* Sources::add_file: the existing id when the handle is present, else push.
add_file(srcs, file) ==
    IF find_file(srcs, file) >= 0
    THEN [srcs |-> srcs, id |-> find_file(srcs, file)]
    ELSE [srcs |-> Append(srcs, NewSource(file)), id |-> Len(srcs)]

\* Sources::add_import.
add_import(srcs, current, import_item_id, import) ==
    LET r == add_file(srcs, import)
    IN [r.srcs EXCEPT ![current + 1].imports = Append(@, <<import_item_id, r.id>>)]

\* add_import(current, ..) for every element of `imps` (pairs <<item id, file>>),
\* in order: the `for (import_item_id, import) in ..` loop of parse_sequential.
RECURSIVE add_imports(_, _, _, _)
add_imports(srcs, current, imps, k) ==
    IF k > Len(imps) THEN srcs
    ELSE add_imports(add_import(srcs, current, imps[k][1], imps[k][2]),
                     current, imps, k + 1)

(***************************************************************************)
(* parse_one and resolve_imports                                           *)
(***************************************************************************)
\* A file's content: "bad" does not parse (the parser returns an error, which
\* is emitted); "ok" parses to a source unit with `items`.  On the way the
\* lexer and the parser emit `rec` errors they recover from, in either case.
\* "unknown" is a file that has not been read yet.
UnknownContent == [st |-> "unknown", items |-> <<>>, rec |-> 0]
BadContent(e) == [st |-> "bad", items |-> <<>>, rec |-> e]

\* Sema::parse_one: the ast (here: whether there is one) and the errors
\* emitted: those the lexer and the parser emitted and went on, and the one
\* parse_file or parse_yul_file_object returned.  In Yul mode the parsed
\* object is dropped and the result is always None.
parse_one(yul, c) ==
    [ast |-> IF yul \/ c.st # "ok" THEN "none" ELSE "some",
     errs |-> c.rec + (IF c.st = "ok" THEN 0 ELSE 1)]

\* The items of the ast handed to resolve_imports (none without an ast).
ast_items(ast, c) == IF ast = "some" THEN c.items ELSE <<>>

RECURSIVE resolve_from(_, _)

\* A faulty filter that gives up at the first import that does not resolve.
resolve_from_stops_at_error(items, k) ==
    IF k > Len(items) THEN [imps |-> <<>>, errs |-> <<>>]
    ELSE IF items[k] \in Files
    THEN [imps |-> <<(<<k - 1, items[k]>>)>> \o resolve_from(items, k + 1).imps,
          errs |-> resolve_from(items, k + 1).errs]
    ELSE [imps |-> <<>>, errs |-> <<k - 1>>]

\* The filter_map chain of resolve_imports from item k on: the imports that
\* resolve, and for each that does not the error emitted, which carries the
\* span of the item (here: its id).
resolve_from(items, k) ==
    IF k > Len(items) THEN [imps |-> <<>>, errs |-> <<>>]
    ELSE LET rest == resolve_from(items, k + 1)
         IN IF items[k] \in Files
            THEN [imps |-> <<(<<k - 1, items[k]>>)>> \o rest.imps, errs |-> rest.errs]
            ELSE [imps |-> rest.imps, errs |-> <<k - 1>> \o rest.errs]

\* Sema::resolve_imports: the (item id, file) pairs of the imports that resolve,
\* in item order, and the errors emitted for those that do not.
resolve_imports(ast, c) == resolve_from(ast_items(ast, c), 1)

(***************************************************************************)
(* topo_sort                                                               *)
(***************************************************************************)
RECURSIVE topo_order(_, _, _), topo_order_imports(_, _, _, _)

\* A faulty topo_order that emits a source before its imports (pre-order).
topo_order_preorder(srcs, id, st) ==
    IF id \in st.seen THEN st
    ELSE topo_order_imports(srcs, srcs[id + 1].imports, 1,
             [order |-> Append(st.order, id), seen |-> st.seen \cup {id}])

\* Sources::topo_order: depth-first, post-order; st = [order, seen].
topo_order(srcs, id, st) ==
    IF id \in st.seen THEN st
    ELSE LET st1 == [st EXCEPT !.seen = @ \cup {id}]
             st2 == topo_order_imports(srcs, srcs[id + 1].imports, 1, st1)
         IN [st2 EXCEPT !.order = Append(@, id)]

\* A faulty loop that follows the imports from the last to the first.
topo_order_imports_reversed(srcs, imps, k, st) ==
    IF k > Len(imps) THEN st
    ELSE topo_order_imports(srcs, imps, k + 1,
                            topo_order(srcs, imps[Len(imps) + 1 - k][2], st))

\* The `for &(_, import_id) in &self.sources[id].imports` loop of topo_order.
topo_order_imports(srcs, imps, k, st) ==
    IF k > Len(imps) THEN st
    ELSE topo_order_imports(srcs, imps, k + 1, topo_order(srcs, imps[k][2], st))

\* The `for id in self.sources.indices()` loop of topo_sort.
RECURSIVE topo_order_all(_, _, _)
topo_order_all(srcs, id, st) ==
    IF id >= Len(srcs) THEN st
    ELSE topo_order_all(srcs, id + 1, topo_order(srcs, id, st))

\* A faulty remap that reads `order` at the import id instead of searching it.
position_as_index(order, id) == order[id + 1]

\* order.iter().position(|id| id == import).unwrap()
position(order, id) ==
    (CHOOSE p \in 1 .. Len(order) :
         /\ order[p] = id
         /\ \A q \in 1 .. (p - 1) : order[q] # id) - 1

\* "Re-map imports": every import id becomes its position in `order`.
remap_imports(srcs, order) ==
    [i \in 1 .. Len(srcs) |->
        [srcs[i] EXCEPT !.imports =
            [k \in 1 .. Len(srcs[i].imports) |->
                <<srcs[i].imports[k][1], position(order, srcs[i].imports[k][2])>>]]]

swap(data, a, b) == [data EXCEPT ![a + 1] = data[b + 1], ![b + 1] = data[a + 1]]

\* The inner `loop` of sort_by_indices; st = [data, indices].
RECURSIVE sort_cycle(_, _)
sort_cycle(st, current_idx) ==
    LET target_idx == st.indices[current_idx + 1]
        ind1 == [st.indices EXCEPT ![current_idx + 1] = current_idx]
    IN IF ind1[target_idx + 1] = target_idx
       THEN [data |-> st.data, indices |-> ind1]
       ELSE sort_cycle([data |-> swap(st.data, current_idx, target_idx),
                        indices |-> ind1], target_idx)

RECURSIVE sort_outer(_, _)
sort_outer(st, idx) ==
    IF idx >= Len(st.data) THEN st
    ELSE IF st.indices[idx + 1] # idx
         THEN sort_outer(sort_cycle(st, idx), idx + 1)
         ELSE sort_outer(st, idx + 1)

\* sort_by_indices(data, indices).
sort_by_indices(data, indices) == sort_outer([data |-> data, indices |-> indices], 0).data

\* Sources::topo_sort.
topo_sort(srcs) ==
    IF Len(srcs) <= 1 THEN srcs
    ELSE LET order == topo_order_all(srcs, 0, [order |-> <<>>, seen |-> {}]).order
         IN sort_by_indices(remap_imports(srcs, order), order)

(***************************************************************************)
(* The loaders                                                             *)
(***************************************************************************)
\* One iteration of parse_sequential's loop for source i, whose file holds c.
parse_sequential_iter(srcs, i, yul, c) ==
    LET p == parse_one(yul, c)
        r == resolve_imports(p.ast, c)
        s1 == add_imports(srcs, i, r.imps, 1)
    IN [srcs |-> [s1 EXCEPT ![i + 1].ast = p.ast], errs |-> p.errs + Len(r.errs)]

\* parse_sequential run to its end from counter i, every file holding cont[file].
RECURSIVE parse_sequential_run(_, _, _, _)
parse_sequential_run(srcs, i, yul, cont) ==
    IF i >= Len(srcs) THEN srcs
    ELSE parse_sequential_run(
             parse_sequential_iter(srcs, i, yul, cont[srcs[i + 1].file]).srcs,
             i + 1, yul, cont)

\* Flattens the task outputs `outs` in the order `ord` of local indices:
\* a sequence of <<local index, <<item id, file>>>>.
RECURSIVE flatten_tasks(_, _, _)
flatten_tasks(outs, ord, k) ==
    IF k > Len(ord) THEN <<>>
    ELSE [j \in 1 .. Len(outs[ord[k] + 1]) |-> <<ord[k], outs[ord[k] + 1][j]>>]
         \o flatten_tasks(outs, ord, k + 1)

\* A faulty collection that does not keep the order of the local indices.
collect_unordered(outs) ==
    flatten_tasks(outs, [k \in 1 .. Len(outs) |-> Len(outs) - k], 1)

\* `.enumerate().flat_map_iter(..).collect_vec_list()` then
\* `imports.into_iter().flatten()`: the outputs in the order of the local index,
\* whatever the order in which the tasks finished.
collect_vec_list(outs) ==
    flatten_tasks(outs, [k \in 1 .. Len(outs) |-> k - 1], 1)

\* The integration loop of parse_parallel: add_import(base + i, ..) in order.
RECURSIVE integrate(_, _, _, _)
integrate(srcs, b, imps, k) ==
    IF k > Len(imps) THEN srcs
    ELSE integrate(add_import(srcs, b + imps[k][1], imps[k][2][1], imps[k][2][2]),
                   b, imps, k + 1)

\* Sources::debug_assert_unique: the stable ids (one per handle) are distinct.
debug_assert_unique(srcs) ==
    Cardinality({srcs[i].file : i \in 1 .. Len(srcs)}) = Len(srcs)

(***************************************************************************)
(* The parse driver as a state machine                                     *)
(***************************************************************************)
Sessions == [yul : BOOLEAN, stop_after_parsing : BOOLEAN, sequential : BOOLEAN]

\* The files named so far: those loaded or discovered, and those an import of
\* a file read so far resolves to.
Named ==
    {sources[i].file : i \in 1 .. Len(sources)} \cup
    {g \in Files : \E f \in Files : \E k \in 1 .. Len(content[f].items) :
                       content[f].items[k] = g}

\* Handles are opaque: a file that has not been named before is given the
\* least unused number (as in LoadFile), at its first import in item order.
Canonical(s) ==
    \A k \in 1 .. Len(s) :
        s[k] \in Files =>
            s[k] <= Cardinality(Named \cup {g \in Files : \E j \in 1 .. (k - 1) : s[j] = g})

\* What a file read for the first time may hold.  The item budget and the
\* budget of recovered errors bound the model; a Yul object has no import
\* items.
Contents ==
    {BadContent(e) : e \in 0 .. (MaxRecovered - SumRec(content, Files))} \cup
    {[st |-> "ok", items |-> s, rec |-> e] :
        s \in {t \in SeqsUpTo(ItemKinds,
                     IF sess.yul THEN 0 ELSE MaxItems - SumLens(content, Files)) :
                 Canonical(t)},
        e \in 0 .. (MaxRecovered - SumRec(content, Files))}

\* The content of file f: what was read before, or a fresh draw.
Read(f) == IF content[f].st = "unknown" THEN Contents ELSE {content[f]}

InitSemaIn(S) ==
    /\ sess \in S
    /\ content = [f \in Files |-> UnknownContent]
    /\ sources = <<>>
    /\ pc = "load"
    /\ cur = 0
    /\ start = 0
    /\ base = 0
    /\ pending = {}
    /\ taskOut = <<>>
    /\ tasks = <<>>
    /\ nErrors = 0
    /\ loadErrs = 0
    /\ result = "none"
    /\ initial = <<>>
    /\ parseCalls = [f \in Files |-> 0]
    /\ loaderSteps = 0
    /\ preSort = <<>>
    /\ lexer = "idle" /\ diags = <<>> /\ returned = <<>> /\ bumps = <<>>
    /\ callBumps = <<>>
    /\ lexStatus = "idle"
    /\ parser = "idle" /\ pout = <<>> /\ pstatus = "idle"

\* Sema::add_file / load_file / load_stdin: one more file is loaded.  Handles
\* are opaque, so the files are numbered in the order of their first load: f is
\* a handle loaded before or the next new one.
LoadFile(f) ==
    /\ pc = "load"
    /\ f <= Len(sources)
    /\ f < MaxLoad
    /\ sources' = add_file(sources, f).srcs
    /\ UNCHANGED <<sess, content, pc, cur, start, base, pending, taskOut,
                   nErrors, result, initial, parseCalls, preSort>>
    /\ UNCHANGED <<tasks, loadErrs, lexVars, parVars>>
    /\ UNCHANGED loaderSteps

\* Sema::load_file / load_files / load_stdin when the resolver fails: the
\* error is emitted and no source is added.
LoadFileFails ==
    /\ pc = "load"
    /\ loadErrs < MaxFailedLoads
    /\ nErrors' = nErrors + 1
    /\ loadErrs' = loadErrs + 1
    /\ UNCHANGED <<sess, content, sources, pc, cur, start, base, pending, taskOut,
                   tasks, result, initial, parseCalls, loaderSteps, preSort>>
    /\ UNCHANGED <<lexVars, parVars>>

\* A faulty ensure_sources that lets an empty vector through.
ensure_sources_always_ok(srcs) == TRUE

\* Sema::ensure_sources: Ok (TRUE) unless no source has been loaded.
ensure_sources(srcs) == Len(srcs) # 0

\* A faulty stopping condition that forgets the stop-after-parsing flag.
stops_after_parsing_yul_only(s) == s.yul

\* The stopping condition of parse_and_resolve: the language is Yul or
\* stop_after is `parsing`.
stops_after_parsing(s) == s.yul \/ s.stop_after_parsing

\* parse_and_resolve up to the loader: ensure_sources, then parse() picks the
\* sequential or the parallel loader.
StartParse ==
    /\ pc = "load"
    /\ IF ~ensure_sources(sources)
       THEN /\ nErrors' = nErrors + 1
            /\ result' = "err"
            /\ pc' = "done"
            /\ UNCHANGED initial
       ELSE /\ initial' = sources
            /\ pc' = IF sess.sequential THEN "seq" ELSE "par"
            /\ UNCHANGED <<nErrors, result>>
    /\ cur' = 0
    /\ start' = 0
    /\ UNCHANGED <<sess, content, sources, base, pending, taskOut,
                   parseCalls, preSort>>
    /\ UNCHANGED <<tasks, loadErrs, lexVars, parVars>>
    /\ UNCHANGED loaderSteps

\* One iteration of parse_sequential: parse source `cur`, add its imports.
SeqStep ==
    /\ pc = "seq"
    /\ cur < Len(sources)
    /\ LET f == sources[cur + 1].file
       IN \E c \in Read(f) :
            LET r == parse_sequential_iter(sources, cur, sess.yul, c)
            IN /\ content' = [content EXCEPT ![f] = c]
               /\ sources' = r.srcs
               /\ nErrors' = nErrors + r.errs
               /\ parseCalls' = [parseCalls EXCEPT ![f] = @ + 1]
    /\ cur' = cur + 1
    /\ UNCHANGED <<sess, pc, start, base, pending, taskOut, result,
                   initial, preSort>>
    /\ UNCHANGED <<tasks, loadErrs, lexVars, parVars>>
    /\ loaderSteps' = loaderSteps + 1

\* parse_sequential: `sources.get(current_file)` is None, the loop breaks.
SeqDone ==
    /\ pc = "seq"
    /\ cur >= Len(sources)
    /\ pc' = "parsed"
    /\ UNCHANGED <<sess, content, sources, cur, start, base, pending, taskOut,
                   nErrors, result, initial, parseCalls, preSort>>
    /\ UNCHANGED <<tasks, loadErrs, lexVars, parVars>>
    /\ loaderSteps' = loaderSteps + 1

\* A task of a wave that has not begun: its stage ("new", then "parsing" in
\* parse_one, then "resolving" in resolve_imports) and the number of errors
\* it has emitted in that stage.
NewTask == [stage |-> "new", emitted |-> 0]

\* A faulty head of the loop that advances `start` by one source only.
WaveStart_start_plus_one ==
    /\ pc = "par"
    /\ IF start >= Len(sources)
       THEN /\ pc' = "parsed"
            /\ UNCHANGED <<start, base, pending, taskOut, tasks>>
       ELSE /\ pc' = "wave"
            /\ base' = start
            /\ start' = start + 1
            /\ pending' = 0 .. (Len(sources) - start - 1)
            /\ taskOut' = [k \in 1 .. (Len(sources) - start) |-> <<>>]
            /\ tasks' = [k \in 1 .. (Len(sources) - start) |-> NewTask]
    /\ UNCHANGED <<sess, content, sources, cur, nErrors, result, initial,
                   parseCalls, preSort>>
    /\ UNCHANGED <<loadErrs, lexVars, parVars>>
    /\ loaderSteps' = loaderSteps + 1

\* parse_parallel: the head of the loop. An empty frontier breaks; otherwise one
\* task per source of the frontier is spawned.
WaveStart ==
    /\ pc = "par"
    /\ IF start >= Len(sources)
       THEN /\ pc' = "parsed"
            /\ UNCHANGED <<start, base, pending, taskOut, tasks>>
       ELSE /\ pc' = "wave"
            /\ base' = start
            /\ start' = Len(sources)
            /\ pending' = 0 .. (Len(sources) - start - 1)
            /\ taskOut' = [k \in 1 .. (Len(sources) - start) |-> <<>>]
            /\ tasks' = [k \in 1 .. (Len(sources) - start) |-> NewTask]
    /\ UNCHANGED <<sess, content, sources, cur, nErrors, result, initial,
                   parseCalls, preSort>>
    /\ UNCHANGED <<loadErrs, lexVars, parVars>>
    /\ loaderSteps' = loaderSteps + 1

\* The task k of the wave has not read its file yet, or it has and is still
\* in parse_one.
InParseOne(k) == k \in pending /\ tasks[k + 1].stage \in {"new", "parsing"}

\* The first step of a task reads the file (c is drawn then) and counts as
\* the call of parse_one.
TaskReads(k, c) ==
    /\ content' = [content EXCEPT ![sources[base + k + 1].file] = c]
    /\ parseCalls' = [parseCalls EXCEPT ![sources[base + k + 1].file] =
                                            IF tasks[k + 1].stage = "new" THEN @ + 1 ELSE @]

\* A task in parse_one: the lexer or the parser emits the next error of the
\* file, or parse_one emits the error the parser returned.
ParTaskParse(k) ==
    /\ pc = "wave"
    /\ InParseOne(k)
    /\ \E c \in Read(sources[base + k + 1].file) :
          /\ tasks[k + 1].emitted < parse_one(sess.yul, c).errs
          /\ TaskReads(k, c)
    /\ nErrors' = nErrors + 1
    /\ tasks' = [tasks EXCEPT ![k + 1] = [stage |-> "parsing", emitted |-> @.emitted + 1]]
    /\ UNCHANGED <<sess, sources, pc, cur, start, base, pending, taskOut, result,
                   initial, preSort>>
    /\ UNCHANGED <<loadErrs, lexVars, parVars>>
    /\ UNCHANGED loaderSteps

\* `source.ast = self.parse_one(..)`: parse_one has returned, the task
\* stores the ast in its own source.
ParTaskAst(k) ==
    /\ pc = "wave"
    /\ InParseOne(k)
    /\ \E c \in Read(sources[base + k + 1].file) :
          /\ tasks[k + 1].emitted = parse_one(sess.yul, c).errs
          /\ TaskReads(k, c)
          /\ sources' = [sources EXCEPT ![base + k + 1].ast = parse_one(sess.yul, c).ast]
    /\ tasks' = [tasks EXCEPT ![k + 1] = [stage |-> "resolving", emitted |-> 0]]
    /\ UNCHANGED <<sess, pc, cur, start, base, pending, taskOut, nErrors, result,
                   initial, preSort>>
    /\ UNCHANGED <<loadErrs, lexVars, parVars>>
    /\ UNCHANGED loaderSteps

\* What resolve_imports gives for the source of task k, whose ast is stored.
TaskResolved(k) ==
    resolve_imports(sources[base + k + 1].ast, content[sources[base + k + 1].file])

\* A task in resolve_imports: the error for the next import that does not
\* resolve is emitted.
ParTaskResolve(k) ==
    /\ pc = "wave"
    /\ k \in pending
    /\ tasks[k + 1].stage = "resolving"
    /\ tasks[k + 1].emitted < Len(TaskResolved(k).errs)
    /\ nErrors' = nErrors + 1
    /\ tasks' = [tasks EXCEPT ![k + 1].emitted = @ + 1]
    /\ UNCHANGED <<sess, content, sources, pc, cur, start, base, pending, taskOut,
                   result, initial, parseCalls, preSort>>
    /\ UNCHANGED <<loadErrs, lexVars, parVars>>
    /\ UNCHANGED loaderSteps

\* A faulty end of a task that pushes the imports it resolved itself.
ParTaskDone_adds_imports(k) ==
    /\ pc = "wave"
    /\ k \in pending
    /\ tasks[k + 1].stage = "resolving"
    /\ tasks[k + 1].emitted = Len(TaskResolved(k).errs)
    /\ sources' = add_imports(sources, base + k, TaskResolved(k).imps, 1)
    /\ pending' = pending \ {k}
    /\ UNCHANGED <<sess, content, pc, cur, start, base, taskOut, nErrors, result, initial,
                   parseCalls, preSort>>
    /\ UNCHANGED <<tasks, loadErrs, lexVars, parVars>>
    /\ loaderSteps' = loaderSteps + 1

\* The end of a task: resolve_imports has returned, and the task yields the
\* imports it resolved, paired with its index.
ParTaskDone(k) ==
    /\ pc = "wave"
    /\ k \in pending
    /\ tasks[k + 1].stage = "resolving"
    /\ tasks[k + 1].emitted = Len(TaskResolved(k).errs)
    /\ taskOut' = [taskOut EXCEPT ![k + 1] = TaskResolved(k).imps]
    /\ pending' = pending \ {k}
    /\ UNCHANGED <<sess, content, sources, pc, cur, start, base, nErrors, result, initial,
                   parseCalls, preSort>>
    /\ UNCHANGED <<tasks, loadErrs, lexVars, parVars>>
    /\ loaderSteps' = loaderSteps + 1

\* parse_parallel: all tasks of the wave have finished; their imports are
\* integrated on the calling thread, then the loop goes round.
Integrate ==
    /\ pc = "wave"
    /\ pending = {}
    /\ sources' = integrate(sources, base, collect_vec_list(taskOut), 1)
    /\ pc' = "par"
    /\ taskOut' = <<>>
    /\ tasks' = <<>>
    /\ UNCHANGED <<sess, content, cur, start, base, pending, nErrors, result,
                   initial, parseCalls, preSort>>
    /\ UNCHANGED <<loadErrs, lexVars, parVars>>
    /\ loaderSteps' = loaderSteps + 1

\* parse_and_resolve after parse(): the uniqueness assertion of debug builds,
\* then the early return for Yul or for stopping after parsing.
AfterParse ==
    /\ pc = "parsed"
    /\ IF ~debug_assert_unique(sources)
       THEN result' = "panic" /\ pc' = "done"
       ELSE IF stops_after_parsing(sess)
       THEN result' = "ok" /\ pc' = "done"
       ELSE result' = result /\ pc' = "ast_passes"
    /\ UNCHANGED <<sess, content, sources, cur, start, base, pending, taskOut,
                   nErrors, initial, parseCalls, preSort>>
    /\ UNCHANGED <<tasks, loadErrs, lexVars, parVars>>
    /\ UNCHANGED loaderSteps

\* all_ast_passes, which may emit e errors, then `self.dcx().has_errors()?`.
AstPasses(e) ==
    /\ pc = "ast_passes"
    /\ nErrors' = nErrors + e
    /\ IF nErrors + e > 0
       THEN result' = "err" /\ pc' = "done"
       ELSE result' = result /\ pc' = "topo_sort"
    /\ UNCHANGED <<sess, content, sources, cur, start, base, pending, taskOut,
                   initial, parseCalls, preSort>>
    /\ UNCHANGED <<tasks, loadErrs, lexVars, parVars>>
    /\ UNCHANGED loaderSteps

\* sources.topo_sort()
TopoSort ==
    /\ pc = "topo_sort"
    /\ preSort' = sources
    /\ sources' = topo_sort(sources)
    /\ pc' = "lower"
    /\ UNCHANGED <<sess, content, cur, start, base, pending, taskOut,
                   nErrors, result, initial, parseCalls>>
    /\ UNCHANGED <<tasks, loadErrs, lexVars, parVars>>
    /\ UNCHANGED loaderSteps

\* ast_lowering::lower, which may emit e errors, then `has_errors()?`, `Ok(())`.
Lower(e) ==
    /\ pc = "lower"
    /\ nErrors' = nErrors + e
    /\ result' = IF nErrors + e > 0 THEN "err" ELSE "ok"
    /\ pc' = "done"
    /\ UNCHANGED <<sess, content, sources, cur, start, base, pending, taskOut,
                   initial, parseCalls, preSort>>
    /\ UNCHANGED <<tasks, loadErrs, lexVars, parVars>>
    /\ UNCHANGED loaderSteps

\* The loader and what follows it, for every session that does not stop after
\* parsing (the loaders do not read that flag).
InitSema == InitSemaIn({s \in Sessions : ~s.stop_after_parsing})

\* The same for every session.
InitDriver == InitSemaIn(Sessions)

NextSema ==
    \/ \E f \in Files : LoadFile(f)
    \/ LoadFileFails
    \/ StartParse
    \/ SeqStep
    \/ SeqDone
    \/ WaveStart
    \/ \E k \in 0 .. (NFiles - 1) : ParTaskParse(k)
    \/ \E k \in 0 .. (NFiles - 1) : ParTaskAst(k)
    \/ \E k \in 0 .. (NFiles - 1) : ParTaskResolve(k)
    \/ \E k \in 0 .. (NFiles - 1) : ParTaskDone(k)
    \/ Integrate
    \/ AfterParse
    \/ \E e \in 0 .. 1 : AstPasses(e)
    \/ TopoSort
    \/ \E e \in 0 .. 1 : Lower(e)

SpecSema == InitSema /\ [][NextSema]_vars

SpecDriver == InitDriver /\ [][NextSema]_vars

(***************************************************************************)
(* Properties of the parse driver                                          *)
(***************************************************************************)
\* The ids reachable from the ids in S along import entries of `srcs`.
RECURSIVE ImportClosure(_, _)
ImportClosure(srcs, S) ==
    LET T == S \cup {j \in 0 .. (Len(srcs) - 1) : \E i \in S :
                       \E k \in 1 .. Len(srcs[i + 1].imports) : srcs[i + 1].imports[k][2] = j}
    IN IF T = S THEN S ELSE ImportClosure(srcs, T)

\* Source a imports source b, directly or through other sources (or a = b).
Reaches(srcs, a, b) == b \in ImportClosure(srcs, {a})

\* topo_sort has run on a vector it does not leave untouched by its early return.
SortRan == pc \in {"lower", "done"} /\ preSort # <<>>

\* The loader has ended.
Loaded == pc \in {"parsed", "ast_passes", "topo_sort", "lower", "done"} /\ initial # <<>>

\* The sources vector as the loader left it.
LoadedSources == IF preSort # <<>> THEN preSort ELSE sources

\* C1 as stated: after topo_sort, every id stored in sources[i].imports is
\* strictly less than i, for every import graph (cycles and self-imports
\* included).
C1_ImportsBelowSelf ==
    SortRan =>
        \A i \in 0 .. (Len(sources) - 1) :
            \A k \in 1 .. Len(sources[i + 1].imports) :
                sources[i + 1].imports[k][2] < i

\* C1 (amended): after topo_sort, every id j stored in sources[i].imports is
\* strictly less than i unless source j imports source i back, directly or
\* through other sources (the import lies on a cycle; j = i for a self-import).
C1_ImportsBelowSelfUnlessCycle ==
    SortRan =>
        \A i \in 0 .. (Len(sources) - 1) :
            \A k \in 1 .. Len(sources[i + 1].imports) :
                LET j == sources[i + 1].imports[k][2]
                IN j < i \/ Reaches(sources, j, i)

\* A sort that moved the sources of an acyclic graph of three files with
\* three imports (A imports B and C, B imports C).
C1_Witness ==
    /\ SortRan
    /\ sources # preSort
    /\ Len(sources) = 3
    /\ \E i \in 1 .. 3 : Len(sources[i].imports) = 2
    /\ \E i \in 1 .. 3 : Len(sources[i].imports) = 1
    /\ \A i \in 0 .. 2 : \A k \in 1 .. Len(sources[i + 1].imports) :
           sources[i + 1].imports[k][2] < i

\* C3: the loader, parallel or sequential, ends with the sources vector that
\* parse_sequential computes from the same initial list and the same file
\* contents and resolver answers, whatever the order in which the tasks of a
\* wave ran: same files at the same ids, same ordered imports, same asts.
C3_ParallelEqualsSequential ==
    Loaded => LoadedSources = parse_sequential_run(initial, 0, sess.yul, content)

\* A parallel load whose first wave ran two tasks that each discovered a new
\* file.
C3_Witness ==
    /\ Loaded
    /\ ~sess.sequential
    /\ Len(initial) = 2
    /\ Len(LoadedSources) = 4
    /\ Len(LoadedSources[1].imports) = 1
    /\ Len(LoadedSources[2].imports) = 1
    /\ LoadedSources[1].imports[1][2] # LoadedSources[2].imports[1][2]
    /\ LoadedSources[3].file > LoadedSources[4].file

\* C4: at every point of loading and import discovery no two entries of the
\* sources vector hold the same file handle, and every import entry holds the
\* id of the one source with the file its item resolves to.
C4_NoDuplicateFiles ==
    /\ \A i, j \in 1 .. Len(sources) : sources[i].file = sources[j].file => i = j
    /\ \A i \in 1 .. Len(sources) :
           \A k \in 1 .. Len(sources[i].imports) :
               LET e == sources[i].imports[k]
               IN /\ e[2] \in 0 .. (Len(sources) - 1)
                  /\ sources[e[2] + 1].file = content[sources[i].file].items[e[1] + 1]

\* A file imported twice by one source, and a loaded file imported again: the
\* vector holds one entry for each.
C4_Witness ==
    /\ pc = "parsed"
    /\ Len(initial) = 2
    /\ Len(sources) = 2
    /\ Len(sources[1].imports) = 2
    /\ sources[1].imports[1][2] = 1
    /\ sources[1].imports[2][2] = 1
    /\ Len(sources[2].imports) = 1

\* The files reachable from the files in S through the imports that resolve,
\* of the files that have an ast.
RECURSIVE FileClosure(_)
FileClosure(S) ==
    LET T == S \cup {g \in Files : \E f \in S :
                       /\ parse_one(sess.yul, content[f]).ast = "some"
                       /\ \E k \in 1 .. Len(content[f].items) : content[f].items[k] = g}
    IN IF T = S THEN S ELSE FileClosure(T)

RECURSIVE SumCalls(_)
SumCalls(S) ==
    IF S = {} THEN 0
    ELSE LET x == CHOOSE y \in S : TRUE IN parseCalls[x] + SumCalls(S \ {x})

\* C5: the loading loop terminates (the number of steps it takes is bounded:
\* at most one parse_one call per file, at most one wave per file and one
\* last empty wave), and when it has ended every file reachable from the
\* initial sources through resolvable imports is in the sources vector and has
\* been handed to parse_one.
C5_LoaderTerminates ==
    /\ SumCalls(Files) <= NFiles
    /\ Len(sources) <= NFiles
    /\ loaderSteps <= 3 * NFiles + 1
    /\ Loaded =>
          \A f \in FileClosure({initial[i].file : i \in 1 .. Len(initial)}) :
              /\ \E i \in 1 .. Len(LoadedSources) : LoadedSources[i].file = f
              /\ parseCalls[f] >= 1

\* A load that has ended on a graph with a self-import and a cycle of two files.
C5_Witness ==
    /\ Loaded
    /\ Len(LoadedSources) = 2
    /\ \E i \in 1 .. 2 : \E k \in 1 .. Len(LoadedSources[i].imports) :
           LoadedSources[i].imports[k][2] = i - 1
    /\ \E k \in 1 .. Len(LoadedSources[1].imports) : LoadedSources[1].imports[k][2] = 1
    /\ \E k \in 1 .. Len(LoadedSources[2].imports) : LoadedSources[2].imports[k][2] = 0

\* A step leaves the ast of every source that has one as it is; the sources
\* are told apart by their files, as the sort moves them.
AstKept ==
    \A i \in 1 .. Len(sources), j \in 1 .. Len(sources') :
        (sources'[j].file = sources[i].file /\ sources[i].ast # "none") =>
            sources'[j].ast = sources[i].ast

\* A step that hands a file to parse_one hands over a file that had not been
\* handed over, whose source has no ast.
ParsedFresh ==
    \A f \in Files :
        parseCalls'[f] > parseCalls[f] =>
            /\ parseCalls[f] = 0
            /\ \A i \in 1 .. Len(sources) : sources[i].file = f => sources[i].ast = "none"

\* C30: every source is handed to parse_one at most once and its ast is
\* assigned at most once, by the sequential and by the parallel loader: no
\* source that has an ast is parsed again, also when it is imported again or
\* lies on an import cycle.
C30_ParsedAtMostOnce ==
    /\ [](pc # "idle" => \A f \in Files : parseCalls[f] <= 1)
    /\ [][pc # "idle" => (AstKept /\ ParsedFresh)]_vars

\* The parallel loader has ended on two files that import each other, the
\* first of them twice, and each was parsed once.
C30_Witness ==
    /\ Loaded
    /\ ~sess.sequential
    /\ Len(LoadedSources) = 2
    /\ Len(LoadedSources[1].imports) = 1
    /\ LoadedSources[1].imports[1][2] = 1
    /\ Len(LoadedSources[2].imports) = 2
    /\ \A k \in 1 .. 2 : LoadedSources[2].imports[k][2] = 0
    /\ \A i \in 1 .. 2 : LoadedSources[i].ast = "some"
    /\ \A i \in 1 .. 2 : parseCalls[LoadedSources[i].file] = 1

\* C9 as stated: parse_and_resolve returns failure exactly when at least one
\* error diagnostic was emitted while it ran, on every path through it.
C9_FailureIffErrors ==
    (pc = "done" /\ result \in {"ok", "err"}) => (result = "err" <=> nErrors > 0)

\* The order topo_sort computes for the vector it was called on.
SortOrder == topo_order_all(preSort, 0, [order |-> <<>>, seen |-> {}]).order

\* topo_sort went past its early return.
Sorted == SortRan /\ Len(preSort) > 1

\* A depth-first traversal with an explicit stack of <<id, next import>>
\* frames: m = [stack, order, seen, root].  One step: with an empty stack the
\* next root in id order is entered unless seen; otherwise the top frame either
\* is left (its id is appended to the order) or follows its next import in the
\* stored order, entering the imported source unless seen.
DfsStep(srcs, m) ==
    LET n == Len(m.stack)
        id == m.stack[n][1]
        k == m.stack[n][2]
        imps == srcs[id + 1].imports
        advanced == [m.stack EXCEPT ![n] = <<id, k + 1>>]
    IN IF n = 0
       THEN IF m.root \in m.seen THEN [m EXCEPT !.root = @ + 1]
            ELSE [m EXCEPT !.root = @ + 1, !.stack = <<<<m.root, 1>>>>,
                           !.seen = @ \cup {m.root}]
       ELSE IF k > Len(imps)
       THEN [m EXCEPT !.stack = SubSeq(m.stack, 1, n - 1), !.order = Append(@, id)]
       ELSE IF imps[k][2] \in m.seen THEN [m EXCEPT !.stack = advanced]
       ELSE [m EXCEPT !.stack = Append(advanced, <<imps[k][2], 1>>),
                      !.seen = @ \cup {imps[k][2]}]

RECURSIVE DfsRun(_, _)
DfsRun(srcs, m) ==
    IF m.stack = <<>> /\ m.root >= Len(srcs) THEN m.order
    ELSE DfsRun(srcs, DfsStep(srcs, m))

DfsPostOrder(srcs) == DfsRun(srcs, [stack |-> <<>>, order |-> <<>>, seen |-> {}, root |-> 0])

\* A imports B then C, B imports C, with ids A = 0, B = 1, C = 2.
IsDiamond(srcs) ==
    /\ Len(srcs) = 3
    /\ Len(srcs[1].imports) = 2
    /\ srcs[1].imports[1][2] = 1
    /\ srcs[1].imports[2][2] = 2
    /\ Len(srcs[2].imports) = 1
    /\ srcs[2].imports[1][2] = 2
    /\ srcs[3].imports = <<>>

\* C12: the order of topo_sort is the depth-first post-order of the import
\* graph, started from each source in id order and following the imports in
\* their stored order; it holds every SourceId exactly once, cycles or not;
\* every source comes after each source it imports unless the import closes a
\* cycle; the sorted vector holds the files in that order; for A importing B
\* then C and B importing C the order is C, B, A.
C12_DepthFirstPostOrder ==
    Sorted =>
        /\ SortOrder = DfsPostOrder(preSort)
        /\ Len(SortOrder) = Len(preSort)
        /\ \A id \in 0 .. (Len(preSort) - 1) :
              Cardinality({p \in 1 .. Len(SortOrder) : SortOrder[p] = id}) = 1
        /\ \A i \in 0 .. (Len(preSort) - 1) :
              \A k \in 1 .. Len(preSort[i + 1].imports) :
                  LET j == preSort[i + 1].imports[k][2]
                  IN \/ position(SortOrder, j) < position(SortOrder, i)
                     \/ Reaches(preSort, j, i)
        /\ \A p \in 1 .. Len(sources) : sources[p].file = preSort[SortOrder[p] + 1].file
        /\ IsDiamond(preSort) => SortOrder = <<2, 1, 0>>

\* The sort has run on A importing B then C and B importing C.
C12_Witness ==
    /\ Sorted
    /\ IsDiamond(preSort)
    /\ sources[1].file = preSort[3].file
    /\ sources[3].file = preSort[1].file

\* C13: topo_sort preserves the import graph.  The vector after the sort is a
\* permutation of the one before: sources[k] is the entry that was at
\* order[k] (same file, same ast), none lost or duplicated; every import entry
\* keeps its item id and its place in its source's list and designates, by its
\* new id, the file it designated before.  A vector of at most one source is
\* left as it is.
C13_SortPreservesGraph ==
    /\ (SortRan /\ Len(preSort) <= 1) => sources = preSort
    /\ Sorted =>
          /\ Len(sources) = Len(preSort)
          /\ \A i \in 1 .. Len(preSort) :
                Cardinality({k \in 1 .. Len(sources) : sources[k].file = preSort[i].file}) = 1
          /\ \A k \in 1 .. Len(sources) :
                LET old == preSort[SortOrder[k] + 1]
                IN /\ sources[k].file = old.file
                   /\ sources[k].ast = old.ast
                   /\ Len(sources[k].imports) = Len(old.imports)
                   /\ \A n \in 1 .. Len(old.imports) :
                         /\ sources[k].imports[n][1] = old.imports[n][1]
                         /\ sources[k].imports[n][2] \in 0 .. (Len(sources) - 1)
                         /\ sources[sources[k].imports[n][2] + 1].file
                               = preSort[old.imports[n][2] + 1].file

\* The sort has moved three sources around (the order is not its own
\* inverse) and remapped an import.
C13_Witness ==
    /\ Sorted
    /\ \E p \in 1 .. Len(SortOrder) : SortOrder[SortOrder[p] + 1] # p - 1
    /\ \E k \in 1 .. Len(sources) : \E n \in 1 .. Len(sources[k].imports) :
          sources[k].imports[n][2] # preSort[SortOrder[k] + 1].imports[n][2]

\* The states in which one of the passes after the parse step is the next
\* thing parse_and_resolve does, or has been done.
PassStages == {"ast_passes", "topo_sort", "lower"}

\* C14: when the language is Yul or the stop-after-parsing flag is set,
\* parse_and_resolve returns right after the parse step: it never gets to the
\* AST passes, the topological sort or lowering, it returns Ok, and the
\* sources are as the loader left them, in discovery order.
C14_StopsAfterParsing ==
    (sess.yul \/ sess.stop_after_parsing) =>
        /\ pc \notin PassStages
        /\ preSort = <<>>
        /\ (pc = "done" /\ initial # <<>>) =>
              /\ result = "ok"
              /\ sources = parse_sequential_run(initial, 0, sess.yul, content)
              /\ \A i \in 1 .. Len(initial) : sources[i].file = initial[i].file

\* A Solidity session with the stop-after-parsing flag has returned with
\* three sources, the third discovered through an import.
C14_Witness ==
    /\ sess.stop_after_parsing
    /\ ~sess.yul
    /\ pc = "done"
    /\ Len(initial) = 2
    /\ Len(sources) = 3
    /\ sources[3].ast = "some"

\* C15 as stated: an error emitted while one file is parsed does not stop
\* loading (when the loader has ended every source of the vector has been
\* handed to parse_one), and once an error has been emitted none of the
\* passes after the parse step (AST passes, topological sort, lowering) is run
\* on the asts.
C15_ErrorsSkipLaterPasses ==
    /\ Loaded => \A i \in 1 .. Len(LoadedSources) : parseCalls[LoadedSources[i].file] >= 1
    /\ nErrors > 0 =>
          ~(/\ pc \in PassStages
            /\ \E i \in 1 .. Len(sources) : sources[i].ast = "some")

\* C16: with no source loaded, parse_and_resolve emits the `no files found`
\* error (one error more than the loads that failed had emitted) and returns
\* failure without parsing anything; the parse step is only ever entered with
\* a non-empty sources vector.
C16_NoSourcesIsAnError ==
    /\ (pc = "done" /\ initial = <<>>) =>
          /\ result = "err"
          /\ nErrors = loadErrs + 1
          /\ sources = <<>>
          /\ SumCalls(Files) = 0
          /\ loaderSteps = 0
    /\ pc \in {"seq", "par", "wave", "parsed"} \cup PassStages =>
          /\ initial # <<>>
          /\ sources # <<>>
    /\ (pc = "done" /\ Len(sources) = 0) => initial = <<>>

\* parse_and_resolve has returned failure on an empty sources vector, after
\* the one load that was tried had failed.
C16_Witness ==
    /\ pc = "done"
    /\ sources = <<>>
    /\ result = "err"
    /\ loadErrs = 1
    /\ nErrors = 2

(***************************************************************************)
(* Raw cursor (crates/parse/src/lexer/cursor.rs)                           *)
(*                                                                         *)
(* The source text is a sequence of bytes, each a one-character string.    *)
(* The characters of the inputs drawn below are one byte long, so that the *)
(* index of a character is its byte offset, except U+00A0, which is two    *)
(* bytes long.                                                              *)
(***************************************************************************)
WhitespaceChars == {" ", "\t", "\n", "\r"}
Quotes == {"\"", "'"}
Letters ==
    {"a", "b", "c", "d", "e", "f", "g", "h", "i", "j", "k", "l", "m", "n", "o",
     "p", "q", "r", "s", "t", "u", "v", "w", "x", "y", "z", "A", "B", "C", "D",
     "E", "F", "G", "H", "I", "J", "K", "L", "M", "N", "O", "P", "Q", "R", "S",
     "T", "U", "V", "W", "X", "Y", "Z"}
Digits == {"0", "1", "2", "3", "4", "5", "6", "7", "8", "9"}
HexDigits == Digits \cup {"a", "b", "c", "d", "e", "f", "A", "B", "C", "D", "E", "F"}
\* U+00A0 takes two bytes in UTF-8: NBSP stands for its first byte and for the
\* character, NBSP_CONT for its second byte.
NBSP == "nbsp"
NBSP_CONT == "nbsp_cont"

\* char::len_utf8 for the characters of the inputs.
len_utf8(c) == IF c = NBSP THEN 2 ELSE 1

\* The bytes of a text given as a sequence of characters.
RECURSIVE utf8(_)
utf8(chars) ==
    IF chars = <<>> THEN <<>>
    ELSE (IF Head(chars) = NBSP THEN <<NBSP, NBSP_CONT>> ELSE <<Head(chars)>>)
         \o utf8(Tail(chars))

is_whitespace(c) == c \in WhitespaceChars
is_id_start(c) == c \in Letters \cup {"_", "$"}
is_id_continue(c) == c \in Letters \cup Digits \cup {"_", "$"}

\* The one-character operator atoms: <<character, raw kind>>.
AtomTable ==
    {<<";", "Semi">>, <<",", "Comma">>, <<".", "Dot">>, <<"(", "OpenParen">>,
     <<")", "CloseParen">>, <<"{", "OpenBrace">>, <<"}", "CloseBrace">>,
     <<"[", "OpenBracket">>, <<"]", "CloseBracket">>, <<"~", "Tilde">>,
     <<"?", "Question">>, <<":", "Colon">>, <<"=", "Eq">>, <<"!", "Bang">>,
     <<"<", "Lt">>, <<">", "Gt">>, <<"-", "Minus">>, <<"&", "And">>,
     <<"|", "Or">>, <<"+", "Plus">>, <<"*", "Star">>, <<"/", "Slash">>,
     <<"^", "Caret">>, <<"%", "Percent">>}

AtomChars == {a[1] : a \in AtomTable}

Atoms == [c \in AtomChars |-> (CHOOSE a \in AtomTable : a[1] = c)[2]]

\* Lexer::bump, the arms of the operator atoms: <<raw kind, token kind, payload>>.
CookTable ==
    {<<"Semi", "Semi", "">>, <<"Comma", "Comma", "">>, <<"Dot", "Dot", "">>,
     <<"OpenParen", "OpenDelim", "Parenthesis">>,
     <<"CloseParen", "CloseDelim", "Parenthesis">>,
     <<"OpenBrace", "OpenDelim", "Brace">>,
     <<"CloseBrace", "CloseDelim", "Brace">>,
     <<"OpenBracket", "OpenDelim", "Bracket">>,
     <<"CloseBracket", "CloseDelim", "Bracket">>, <<"Tilde", "Tilde", "">>,
     <<"Question", "Question", "">>, <<"Colon", "Colon", "">>,
     <<"Eq", "Eq", "">>, <<"Bang", "Not", "">>, <<"Lt", "Lt", "">>,
     <<"Gt", "Gt", "">>, <<"Minus", "BinOp", "Minus">>,
     <<"And", "BinOp", "And">>, <<"Or", "BinOp", "Or">>,
     <<"Plus", "BinOp", "Plus">>, <<"Star", "BinOp", "Star">>,
     <<"Slash", "BinOp", "Slash">>, <<"Caret", "BinOp", "Caret">>,
     <<"Percent", "BinOp", "Percent">>}

cook_atom ==
    [r \in {a[1] : a \in CookTable} |->
        LET a == CHOOSE a \in CookTable : a[1] = r IN <<a[2], a[3]>>]

\* The character at 0-based offset i, "EOF" past the end.
first(src, i) == IF i < Len(src) THEN src[i + 1] ELSE "EOF"

\* The offset of the first character from i on that is not in S.
RECURSIVE eat_while(_, _, _)
eat_while(src, i, S) ==
    IF i < Len(src) /\ src[i + 1] \in S THEN eat_while(src, i + 1, S) ELSE i

\* The offset of the end of the line that holds offset i.
RECURSIVE eat_line(_, _)
eat_line(src, i) ==
    IF i < Len(src) /\ src[i + 1] # "\n" THEN eat_line(src, i + 1) ELSE i

\* Block comments do not nest: the first `*/` from offset i on closes.
RECURSIVE eat_block_comment(_, _)
eat_block_comment(src, i) ==
    IF i >= Len(src) THEN [end |-> Len(src), terminated |-> FALSE]
    ELSE IF src[i + 1] = "*" /\ first(src, i + 1) = "/"
         THEN [end |-> i + 2, terminated |-> TRUE]
         ELSE eat_block_comment(src, i + 1)

\* The rest of a string literal whose opening quote ends at offset i.  A
\* backslash consumes the character after it; the literal is unterminated at
\* the end of the input and at an unescaped newline.  nl tells whether that
\* newline is consumed into the literal.
RECURSIVE eat_string(_, _, _, _)
eat_string(src, i, quote, nl) ==
    IF i >= Len(src) THEN [end |-> Len(src), terminated |-> FALSE]
    ELSE LET c == src[i + 1]
         IN IF c = quote THEN [end |-> i + 1, terminated |-> TRUE]
            ELSE IF c = "\n" THEN [end |-> IF nl THEN i + 1 ELSE i, terminated |-> FALSE]
            ELSE eat_string(src, IF c = "\\" /\ i + 1 < Len(src) THEN i + 2 ELSE i + 1,
                            quote, nl)

\* A raw token.  lit is the raw literal kind; base and empty are the
\* parameters of Int (empty_int) and Rational (empty_exponent).
RawToken(kind, len) ==
    [kind |-> kind, len |-> len, is_doc |-> FALSE, terminated |-> TRUE, lit |-> "",
     base |-> "", empty |-> FALSE]

\* eat_decimal_digits (S = Digits) and eat_hexadecimal_digits (S =
\* HexDigits): digits and `_` separators from offset i on, where they end,
\* and whether a digit was among them.
eat_digits(src, i, S) ==
    [end |-> eat_while(src, i, S \cup {"_"}),
     has_digits |-> \E k \in (i + 1) .. eat_while(src, i, S \cup {"_"}) : src[k] \in S]

\* An optional sign, then decimal digits.
eat_float_exponent(src, i) ==
    eat_digits(src, IF first(src, i) \in {"-", "+"} THEN i + 1 ELSE i, Digits)

\* The raw literal Int {base, empty_int} or Rational {base, empty_exponent}.
RawNumber(lit, len, bs, empty) ==
    [RawToken("Literal", len) EXCEPT !.lit = lit, !.base = bs, !.empty = empty]

\* The base a literal that starts with the digit at offset i is written in.
number_base(src, i) ==
    IF src[i + 1] # "0" THEN "Decimal"
    ELSE CASE first(src, i + 1) = "b" -> "Binary"
           [] first(src, i + 1) = "o" -> "Octal"
           [] first(src, i + 1) = "x" -> "Hexadecimal"
           [] OTHER -> "Decimal"

\* What follows the integer part that ends at offset e of a literal that
\* starts at i: a `.` that is not followed by `.` or by the start of an
\* identifier, with digits and an exponent after it; or an exponent; or
\* nothing, and the literal is an integer.
number_tail(src, i, e, bs) ==
    LET frac == eat_digits(src, e + 1, Digits)
        exp1 == eat_float_exponent(src, frac.end + 1)
        exp0 == eat_float_exponent(src, e + 1)
    IN CASE first(src, e) = "." /\ first(src, e + 1) # "." /\ ~is_id_start(first(src, e + 1)) ->
              IF first(src, e + 1) \notin Digits THEN RawNumber("Rational", e + 1 - i, bs, FALSE)
              ELSE IF first(src, frac.end) \in {"e", "E"}
              THEN RawNumber("Rational", exp1.end - i, bs, ~exp1.has_digits)
              ELSE RawNumber("Rational", frac.end - i, bs, FALSE)
         [] first(src, e) \in {"e", "E"} -> RawNumber("Rational", exp0.end - i, bs, ~exp0.has_digits)
         [] OTHER -> RawNumber("Int", e - i, bs, FALSE)

\* The raw token of a literal that starts with the digit at offset i.
number(src, i) ==
    LET bs == number_base(src, i)
        pre == eat_digits(src, i + 2, IF bs = "Hexadecimal" THEN HexDigits ELSE Digits)
        dec == eat_digits(src, i + 1, Digits)
    IN IF bs # "Decimal"
       THEN IF ~pre.has_digits THEN RawNumber("Int", pre.end - i, bs, TRUE)
            ELSE number_tail(src, i, pre.end, bs)
       ELSE IF src[i + 1] = "0" /\ first(src, i + 1) \notin Digits \cup {"_", ".", "e", "E"}
       THEN RawNumber("Int", 1, bs, FALSE)
       ELSE number_tail(src, i, dec.end, bs)

\* Cursor::advance_token at offset i: the next raw token and its length.
advance_token(src, i, nl) ==
    LET c == first(src, i)
    IN CASE i >= Len(src) -> RawToken("Eof", 0)
         [] i < Len(src) /\ is_whitespace(c) ->
              RawToken("Whitespace", eat_while(src, i, WhitespaceChars) - i)
         [] i < Len(src) /\ c = "/" /\ first(src, i + 1) = "/" ->
              [RawToken("LineComment", eat_line(src, i + 2) - i) EXCEPT
                 !.is_doc = /\ first(src, i + 2) = "/"
                            /\ i + 3 < Len(src)
                            /\ first(src, i + 3) # "/"]
         [] i < Len(src) /\ c = "/" /\ first(src, i + 1) = "*" ->
              LET b == eat_block_comment(src, i + 2)
              IN [RawToken("BlockComment", b.end - i) EXCEPT
                    !.is_doc = /\ first(src, i + 2) = "*"
                               /\ i + 3 < Len(src)
                               /\ first(src, i + 3) \notin {"*", "/"},
                    !.terminated = b.terminated]
         [] i < Len(src) /\ is_id_start(c) ->
              LET e == eat_while(src, i + 1, Letters \cup Digits \cup {"_", "$"})
                  word == SubSeq(src, i + 1, e)
                  s == eat_string(src, e + 1, first(src, e), nl)
              IN IF first(src, e) \notin Quotes THEN RawToken("Ident", e - i)
                 ELSE IF word = <<"h", "e", "x">>
                 THEN [RawToken("Literal", s.end - i) EXCEPT
                         !.lit = "HexStr", !.terminated = s.terminated]
                 ELSE IF word = <<"u", "n", "i", "c", "o", "d", "e">>
                 THEN [RawToken("Literal", s.end - i) EXCEPT
                         !.lit = "UnicodeStr", !.terminated = s.terminated]
                 ELSE RawToken("UnknownPrefix", e - i)
         [] i < Len(src) /\ c \in Digits -> number(src, i)
         [] i < Len(src) /\ c \in Quotes ->
              LET s == eat_string(src, i + 1, c, nl)
              IN [RawToken("Literal", s.end - i) EXCEPT
                    !.lit = "Str", !.terminated = s.terminated]
         [] i < Len(src) /\ c \in DOMAIN Atoms /\ ~(c = "/" /\ first(src, i + 1) \in {"/", "*"}) ->
              RawToken(Atoms[c], 1)
         [] OTHER -> RawToken("Unknown", len_utf8(c))

(***************************************************************************)
(* Tokens (crates/ast/src/token.rs)                                        *)
(***************************************************************************)
\* A token: its kind, the kind's payload (BinOpToken, Delimiter, LitKind or
\* CommentKind), its symbol and its span [lo, hi).
Tok(kind, sub, sym, span) ==
    [kind |-> kind, sub |-> sub, sym |-> sym, lo |-> span[1], hi |-> span[2]]

\* Token::DUMMY
DUMMY == Tok("Dummy", "", <<>>, <<0, 0>>)

\* The glueing rule table: the kind of the glued pair, <<>> when the pair does
\* not glue.
glue_kind(a, b) ==
    LET x == <<a.kind, a.sub>>
        y == <<b.kind, b.sub>>
        eq == <<"Eq", "">>
        gt == <<"Gt", "">>
        lt == <<"Lt", "">>
    IN CASE x = eq /\ y = eq -> <<"EqEq", "">>
         [] x = eq /\ y = gt -> <<"FatArrow", "">>
         [] x = <<"Not", "">> /\ y = eq -> <<"Ne", "">>
         [] x = lt /\ y = eq -> <<"Le", "">>
         [] x = lt /\ y = lt -> <<"BinOp", "Shl">>
         [] x = gt /\ y = eq -> <<"Ge", "">>
         [] x = gt /\ y = gt -> <<"BinOp", "Shr">>
         [] x = <<"BinOp", "Shr">> /\ y = gt -> <<"BinOp", "Sar">>
         [] x = <<"BinOp", "Plus">> /\ y = x -> <<"PlusPlus", "">>
         [] x = <<"BinOp", "Minus">> /\ y = x -> <<"MinusMinus", "">>
         [] x = <<"BinOp", "Minus">> /\ y = gt -> <<"Arrow", "">>
         [] x = <<"BinOp", "Star">> /\ y = x -> <<"StarStar", "">>
         [] x = <<"BinOp", "Or">> /\ y = x -> <<"OrOr", "">>
         [] x = <<"BinOp", "And">> /\ y = x -> <<"AndAnd", "">>
         [] a.kind = "BinOp" /\ y = eq -> <<"BinOpEq", a.sub>>
         [] x = <<"Colon", "">> /\ y = eq -> <<"Walrus", "">>
         [] OTHER -> <<>>

\* Token::glue: <<>> for None, <<t>> for Some(t); the glued token spans from
\* the start of the first token to the end of the second.
glue(a, b) ==
    LET k == glue_kind(a, b)
    IN IF k = <<>> THEN <<>>
       ELSE <<Tok(k[1], k[2], <<>>,
                  <<IF a.lo < b.lo THEN a.lo ELSE b.lo, IF a.hi > b.hi THEN a.hi ELSE b.hi>>)>>

(***************************************************************************)
(* Escapes (crates/parse/src/lexer/unescape)                               *)
(***************************************************************************)
AllIn(s, a, b, S) == \A k \in a .. b : k <= Len(s) /\ s[k] \in S

\* Str and UnicodeStr: the ranges [lo, hi) of the escapes that are in error,
\* scanning the content from 0-based offset i.
unescape_step(s, i) ==
    LET n == first(s, i + 1)
    IN CASE s[i + 1] # "\\" -> [next |-> i + 1, errs |-> <<>>]
         [] s[i + 1] = "\\" /\ n \in {"n", "r", "t", "\\", "'", "\"", "0", "\n"} ->
              [next |-> i + 2, errs |-> <<>>]
         [] s[i + 1] = "\\" /\ n = "x" /\ AllIn(s, i + 3, i + 4, HexDigits) ->
              [next |-> i + 4, errs |-> <<>>]
         [] s[i + 1] = "\\" /\ n = "u" /\ AllIn(s, i + 3, i + 6, HexDigits) ->
              [next |-> i + 6, errs |-> <<>>]
         [] s[i + 1] = "\\" /\ n = "EOF" -> [next |-> i + 1, errs |-> <<<<i, i + 1>>>>]
         [] OTHER -> [next |-> i + 1 + len_utf8(n), errs |-> <<<<i, i + 1 + len_utf8(n)>>>>]

RECURSIVE unescape_str(_, _)
unescape_str(s, i) ==
    IF i >= Len(s) THEN <<>>
    ELSE unescape_step(s, i).errs \o unescape_str(s, unescape_step(s, i).next)

\* HexStr: pairs of hex digits, a single `_` allowed between two pairs.
RECURSIVE hex_pairs_ok(_, _)
hex_pairs_ok(s, i) ==
    IF i >= Len(s) THEN TRUE
    ELSE /\ AllIn(s, i + 1, i + 2, HexDigits)
         /\ \/ i + 2 = Len(s)
            \/ /\ first(s, i + 2) = "_" => i + 3 < Len(s)
               /\ hex_pairs_ok(s, IF first(s, i + 2) = "_" THEN i + 3 ELSE i + 2)

\* unescape_literal: the ranges the callback is called on with an error.
unescape_literal(s, mode) ==
    IF mode = "HexStr"
    THEN IF hex_pairs_ok(s, 0) THEN <<>> ELSE <<<<0, Len(s)>>>>
    ELSE unescape_str(s, 0)

(***************************************************************************)
(* Lexer (crates/parse/src/lexer/mod.rs)                                   *)
(*                                                                         *)
(* L is the Lexer: [src, start_pos, override_span, pos, token,             *)
(* nbsp_is_whitespace, nl]; override_span is <<>> for None and <<lo, hi>>  *)
(* for Some.  The cursor has consumed pos - start_pos bytes.               *)
(***************************************************************************)
\* A diagnostic: arg is the character an `unknown start of token` message
\* names, note the number of repeats its note tells (0: no note).
Diag(level, msg, span) ==
    [level |-> level, msg |-> msg, lo |-> span[1], hi |-> span[2], arg |-> "", note |-> 0]

new_span_from_start(L, lo, hi) ==
    IF L.override_span # <<>> THEN L.override_span ELSE <<L.start_pos, hi>>

new_span(L, lo, hi) ==
    IF L.override_span # <<>> THEN L.override_span ELSE <<lo, hi>>

src_index(L, p) == p - L.start_pos

\* str::is_char_boundary: the start, the end, or the first byte of a
\* character (U+00A0 is the one character of two bytes in the texts).
is_char_boundary(src, i) ==
    \/ i = 0
    \/ i = Len(src)
    \/ 0 < i /\ i < Len(src) /\ src[i + 1] # NBSP_CONT

\* &self.src[a..b] panics unless a <= b, both lie inside the text and both
\* are character boundaries.
slice_ok(L, a, b) ==
    /\ 0 <= src_index(L, a)
    /\ src_index(L, a) <= src_index(L, b)
    /\ src_index(L, b) <= Len(L.src)
    /\ is_char_boundary(L.src, src_index(L, a))
    /\ is_char_boundary(L.src, src_index(L, b))

str_from_to(L, a, b) == SubSeq(L.src, src_index(L, a) + 1, src_index(L, b))

\* The errors cook_doc_comment reports: one for each `\r` of the text.
RECURSIVE cook_doc_comment(_, _, _, _, _)
cook_doc_comment(L, content_start, text, comment_kind, idx) ==
    IF idx >= Len(text) THEN <<>>
    ELSE (IF text[idx + 1] = "\r"
          THEN <<Diag("err",
                      IF comment_kind = "Block"
                      THEN "bare CR not allowed in block doc-comment"
                      ELSE "bare CR not allowed in doc-comment",
                      new_span(L, content_start + idx, content_start + idx + 1))>>
          ELSE <<>>)
         \o cook_doc_comment(L, content_start, text, comment_kind, idx + 1)

RECURSIVE unescape_diags(_, _, _, _)
unescape_diags(L, content_start, errs, k) ==
    IF k > Len(errs) THEN <<>>
    ELSE <<Diag("err", "invalid escape",
                new_span(L, content_start + errs[k][1],
                         content_start + errs[k][1] + (errs[k][2] - errs[k][1])))>>
         \o unescape_diags(L, content_start, errs, k + 1)

\* cook_quoted: [status, kind, sym, diags].
cook_quoted(L, kind, tok_start, end, prefix_len) ==
    LET content_start == tok_start + 1 + prefix_len
        content_end == end - 1
        lit_content == str_from_to(L, content_start, content_end)
        errs == unescape_literal(lit_content, kind)
    IN IF ~slice_ok(L, content_start, content_end)
       THEN [status |-> "panic", kind |-> "Err", sym |-> <<>>, diags |-> <<>>]
       ELSE IF errs # <<>>
       THEN [status |-> "ok", kind |-> "Err", sym |-> str_from_to(L, tok_start, end),
             diags |-> unescape_diags(L, content_start, errs, 1)]
       ELSE [status |-> "ok", kind |-> kind, sym |-> lit_content, diags |-> <<>>]

\* A faulty Int arm that leaves the base prefix out of the symbol.
cook_literal_int_no_prefix(L, tok_start, end, raw) ==
    IF raw.empty
    THEN [status |-> "ok", kind |-> "Integer", sym |-> <<"0">>,
          diags |-> <<Diag("err", "no valid digits found for number",
                           new_span(L, tok_start, end))>>]
    ELSE IF raw.base \in {"Binary", "Octal"}
    THEN [status |-> "ok", kind |-> "Integer", sym |-> str_from_to(L, tok_start + 2, end),
          diags |-> <<[Diag("err", "integers in base are not supported",
                            new_span(L, tok_start + 2, end)) EXCEPT !.arg = raw.base]>>]
    ELSE [status |-> "ok", kind |-> "Integer", sym |-> str_from_to(L, tok_start, end),
          diags |-> <<>>]

\* cook_literal, the Int arm: [status, kind, sym, diags].  The `start + 2` of
\* the binary and octal case is local to its block: it moves the span of the
\* error, not the symbol.
cook_literal_int(L, tok_start, end, raw) ==
    IF raw.empty
    THEN [status |-> "ok", kind |-> "Integer", sym |-> <<"0">>,
          diags |-> <<Diag("err", "no valid digits found for number",
                           new_span(L, tok_start, end))>>]
    ELSE [status |-> "ok", kind |-> "Integer", sym |-> str_from_to(L, tok_start, end),
          diags |-> IF raw.base \in {"Binary", "Octal"}
                    THEN <<[Diag("err", "integers in base are not supported",
                                 new_span(L, tok_start + 2, end)) EXCEPT !.arg = raw.base]>>
                    ELSE <<>>]

\* A faulty Rational arm that reports one error at most.
cook_literal_rational_one_error(L, tok_start, end, raw) ==
    [status |-> "ok", kind |-> "Rational", sym |-> str_from_to(L, tok_start, end),
     diags |->
        IF raw.empty
        THEN <<Diag("err", "expected at least one digit in exponent",
                    new_span(L, tok_start, end))>>
        ELSE IF raw.base \in {"Binary", "Octal", "Hexadecimal"}
        THEN <<[Diag("err", "rational numbers are not supported",
                     new_span(L, tok_start, end)) EXCEPT !.arg = raw.base]>>
        ELSE <<>>]

\* cook_literal, the Rational arm: [status, kind, sym, diags]; self.pos is
\* `end` when bump calls it.
cook_literal_rational(L, tok_start, end, raw) ==
    [status |-> "ok", kind |-> "Rational", sym |-> str_from_to(L, tok_start, end),
     diags |->
        (IF raw.empty
         THEN <<Diag("err", "expected at least one digit in exponent",
                     new_span(L, tok_start, end))>>
         ELSE <<>>)
        \o (IF raw.base \in {"Binary", "Octal", "Hexadecimal"}
            THEN <<[Diag("err", "rational numbers are not supported",
                         new_span(L, tok_start, end)) EXCEPT !.arg = raw.base]>>
            ELSE <<>>)]

\* cook_literal: [status, kind, sym, diags].  For the quoted literals the
\* emit() of a fatal diagnostic either returns or aborts the lexer (ab).
cook_literal(L, tok_start, end, raw, ab) ==
    LET msg == IF raw.lit = "HexStr" THEN "unterminated hex string" ELSE "unterminated string"
        fatal == IF raw.terminated THEN <<>>
                 ELSE <<Diag("fatal", msg, new_span(L, tok_start, end))>>
        prefix_len == CASE raw.lit = "UnicodeStr" -> 7 [] raw.lit = "HexStr" -> 3 [] OTHER -> 0
        q == cook_quoted(L, raw.lit, tok_start, end, prefix_len)
    IN IF raw.lit = "Int" THEN cook_literal_int(L, tok_start, end, raw)
       ELSE IF raw.lit = "Rational" THEN cook_literal_rational(L, tok_start, end, raw)
       ELSE IF ~raw.terminated /\ ab
       THEN [status |-> "fatal", kind |-> "Err", sym |-> <<>>, diags |-> fatal]
       ELSE [q EXCEPT !.diags = fatal \o @]

\* A faulty count that sees no repeat.
repeats_of_none(src, i, c) == 0

\* The number of characters equal to c from byte offset i on.
RECURSIVE repeats_of(_, _, _)
repeats_of(src, i, c) ==
    IF i < Len(src) /\ src[i + 1] = c THEN 1 + repeats_of(src, i + len_utf8(c), c) ELSE 0

\* A faulty bump whose position moves on at the end of the input.
bump_ret_eof_advances(status, tok, st, pos) ==
    [status |-> status, tok |-> tok, pws |-> st.pws,
     pos |-> IF tok.kind = "Eof" THEN pos + 1 ELSE pos, nbsp |-> st.nbsp,
     diags |-> st.diags, skips |-> st.skips, unterm |-> st.unterm]

\* A faulty bump that does not keep nbsp_is_whitespace in the lexer.
bump_ret_forgets_nbsp(status, tok, st, pos) ==
    [status |-> status, tok |-> tok, pws |-> st.pws, pos |-> pos, nbsp |-> FALSE,
     diags |-> st.diags, skips |-> st.skips, unterm |-> st.unterm]

\* A faulty bump for which unknown characters are no whitespace: only
\* whitespace and comments set preceded_by_whitespace.
bump_ret_unknown_no_barrier(status, tok, st, pos) ==
    [status |-> status, tok |-> tok,
     pws |-> \E i \in 1 .. Len(st.skips) : st.skips[i].class # "unknown",
     pos |-> pos, nbsp |-> st.nbsp,
     diags |-> st.diags, skips |-> st.skips, unterm |-> st.unterm]

\* What bump hands back: the token and preceded_by_whitespace, with the
\* lexer's new pos and nbsp_is_whitespace, the diagnostics emitted, the byte
\* ranges skipped and whether an unterminated raw token was met.
bump_ret(status, tok, st, pos) ==
    [status |-> status, tok |-> tok, pws |-> st.pws, pos |-> pos, nbsp |-> st.nbsp,
     diags |-> st.diags, skips |-> st.skips, unterm |-> st.unterm]

\* Lexer::bump, the match on the raw token `raw` in one iteration of its loop,
\* from the state st = [pos, pws, swallow, nbsp, diags, skips, unterm] of the
\* locals preceded_by_whitespace and swallow_next_invalid and of the lexer:
\* `continue` with a new state, or return.
bump_arm(L, st, ab, raw) ==
    LET tok_start == st.pos
        pos == st.pos + raw.len
        skip(class) == Append(st.skips, [lo |-> tok_start, hi |-> pos, class |-> class])
        span == new_span(L, tok_start, pos)
        continue(st2) == [done |-> FALSE, st |-> st2]
        return(r) == [done |-> TRUE, ret |-> r]
    IN CASE raw.kind = "LineComment" ->
              IF ~raw.is_doc
              THEN continue([st EXCEPT !.pos = pos, !.pws = TRUE,
                                           !.skips = skip("comment")])
              ELSE LET text == str_from_to(L, tok_start + 3, pos)
                   IN return(bump_ret("ok", Tok("DocComment", "Line", text, span),
                               [st EXCEPT !.diags = @ \o cook_doc_comment(L, tok_start + 3, text, "Line", 0)],
                               pos))
         [] raw.kind = "BlockComment" ->
              LET msg == IF raw.is_doc THEN "unterminated block doc-comment"
                         ELSE "unterminated block comment"
                  st1 == IF raw.terminated THEN st
                         ELSE [st EXCEPT !.diags = Append(@, Diag("fatal", msg, span)),
                                         !.unterm = TRUE]
                  content_start == tok_start + 3
                  content_end == pos - (IF raw.terminated THEN 2 ELSE 0)
                  text == str_from_to(L, content_start, content_end)
              IN IF ~raw.terminated /\ ab THEN return(bump_ret("fatal", DUMMY, st1, pos))
                 ELSE IF ~raw.is_doc
                 THEN continue([st1 EXCEPT !.pos = pos, !.pws = TRUE,
                                               !.skips = skip("comment")])
                 ELSE IF ~slice_ok(L, content_start, content_end)
                 THEN return(bump_ret("panic", DUMMY, st1, pos))
                 ELSE return(bump_ret("ok", Tok("DocComment", "Block", text, span),
                               [st1 EXCEPT !.diags = @ \o cook_doc_comment(L, content_start, text, "Block", 0)],
                               pos))
         [] raw.kind = "Whitespace" ->
              continue([st EXCEPT !.pos = pos, !.pws = TRUE,
                                      !.skips = skip("whitespace")])
         [] raw.kind = "Ident" ->
              return(bump_ret("ok", Tok("Ident", "", str_from_to(L, tok_start, pos), span), st, pos))
         [] raw.kind = "UnknownPrefix" ->
              return(bump_ret("ok", Tok("Ident", "", str_from_to(L, tok_start, pos), span),
                       [st EXCEPT !.diags = Append(@, Diag("err", "prefix is unknown", span))],
                       pos))
         [] raw.kind = "Literal" ->
              LET c == cook_literal(L, tok_start, pos, raw, ab)
                  st1 == [st EXCEPT !.diags = @ \o c.diags,
                                    !.unterm = @ \/ ~raw.terminated]
              IN IF c.status # "ok" THEN return(bump_ret(c.status, DUMMY, st1, pos))
                 ELSE return(bump_ret("ok", Tok("Literal", c.kind, c.sym, span), st1, pos))
         [] raw.kind \in DOMAIN cook_atom ->
              return(bump_ret("ok", Tok(cook_atom[raw.kind][1], cook_atom[raw.kind][2], <<>>, span),
                       st, pos))
         [] raw.kind = "Unknown" ->
              LET c == first(L.src, src_index(L, tok_start))
                  repeats == repeats_of(L.src, src_index(L, tok_start) + len_utf8(c), c)
                  d == [Diag("err", "unknown start of token",
                             new_span(L, tok_start, pos + repeats * len_utf8(c)))
                          EXCEPT !.arg = c, !.note = repeats]
              IN IF st.swallow > 0
                 THEN continue([st EXCEPT !.pos = pos, !.swallow = @ - 1,
                                              !.skips = skip("unknown")])
                 ELSE IF c = NBSP /\ st.nbsp
                 THEN continue([st EXCEPT !.pos = pos, !.pws = TRUE,
                                              !.skips = skip("unknown")])
                 ELSE continue([st EXCEPT !.pos = pos, !.pws = TRUE,
                                              !.swallow = repeats,
                                              !.nbsp = @ \/ c = NBSP,
                                              !.diags = Append(@, d),
                                              !.skips = skip("unknown")])
         [] OTHER -> return(bump_ret("ok", Tok("Eof", "", <<>>, span), st, pos))

\* Lexer::bump, its loop: the raw token of the cursor, then the arm for it.
RECURSIVE bump_loop(_, _, _)
RECURSIVE bump_next(_, _, _)
bump_loop(L, st, ab) ==
    bump_next(L, ab, bump_arm(L, st, ab, advance_token(L.src, src_index(L, st.pos), L.nl)))

bump_next(L, ab, s) == IF s.done THEN s.ret ELSE bump_loop(L, s.st, ab)

\* Lexer::bump
bump(L, ab) ==
    bump_loop(L, [pos |-> L.pos, pws |-> FALSE, swallow |-> 0, nbsp |-> L.nbsp_is_whitespace,
                  diags |-> <<>>, skips |-> <<>>, unterm |-> FALSE], ab)

\* The tokens bump cooks from a single operator atom.
is_atom(t) ==
    \E k \in DOMAIN cook_atom : <<t.kind, t.sub>> = cook_atom[k]

\* next_token's decision on the token r.tok that bump handed back: go on with
\* the glued pending token, or stop.
glue_step_nobarrier(token, r) ==
    LET g == glue(token, r.tok)
    IN IF g # <<>> THEN [go |-> TRUE, token |-> g[1]] ELSE [go |-> FALSE, token |-> token]

glue_step_nochain(token, r) ==
    LET g == glue(token, r.tok)
    IN IF ~r.pws /\ is_atom(token) /\ g # <<>>
       THEN [go |-> TRUE, token |-> g[1]] ELSE [go |-> FALSE, token |-> token]

glue_step(token, r) ==
    LET g == glue(token, r.tok)
    IN IF r.pws THEN [go |-> FALSE, token |-> token]
       ELSE IF g # <<>> THEN [go |-> TRUE, token |-> g[1]]
       ELSE [go |-> FALSE, token |-> token]

\* Lexer::next_token: the loop, then the replace of self.token.  log collects
\* what each bump handed back; r is what the bump of this iteration did.
RECURSIVE next_token(_, _, _)
RECURSIVE next_token_on(_, _, _, _)
next_token(L, ab, log) == next_token_on(L, ab, log, bump(L, ab))

next_token_glue(L, ab, log, r, L1, g) ==
    IF g.go
    THEN next_token([L1 EXCEPT !.token = g.token], ab, Append(log, r))
    ELSE [status |-> "ok", L |-> [L1 EXCEPT !.token = r.tok], ret |-> L.token,
          log |-> Append(log, r)]

next_token_on(L, ab, log, r) ==
    IF r.status # "ok"
    THEN [status |-> r.status, L |-> [L EXCEPT !.pos = r.pos, !.nbsp_is_whitespace = r.nbsp],
          ret |-> DUMMY, log |-> Append(log, r)]
    ELSE next_token_glue(L, ab, log, r,
                         [L EXCEPT !.pos = r.pos, !.nbsp_is_whitespace = r.nbsp],
                         glue_step(L.token, r))

\* Token::is_eof
is_eof(t) == t.kind = "Eof"

\* Iterator::next for Lexer, on the token next_token returned: <<>> for None,
\* <<t>> for Some(t).
iterator_next(t) == IF is_eof(t) THEN <<>> ELSE <<t>>

RECURSIVE concat_diags(_, _)
concat_diags(log, k) ==
    IF k > Len(log) THEN <<>> ELSE log[k].diags \o concat_diags(log, k + 1)

(***************************************************************************)
(* The lexer as a state machine: Lexer::new, then next_token calls.        *)
(***************************************************************************)
\* Longest source text of the exhaustive inputs.
MaxSrcLen == 4
\* Number of EOF tokens next_token is asked for.
MaxEofs == 2

LexAlphabet == {"=", ">", " ", "/", "*", "\n", "\"", "a", "#"}

LexScenarios ==
    {<<">", " ", ">", ">", "=">>,
     <<"+", "+", "+", "=">>,
     <<"h", "e", "x", "\"", "a">>,
     <<"h", "e", "x", "\"">>,
     <<"=", "/", "*", "*", "/", "=">>,
     <<"/", "/", "/", "a", "\n", "=">>}

LexInputs == SeqsUpTo(LexAlphabet, MaxSrcLen) \cup LexScenarios

\* start_pos and override_span of the lexers built.
LexVariants == {<<0, <<>>>>, <<2, <<>>>>, <<0, <<7, 9>>>>}

has_char(src, c) == \E k \in 1 .. Len(src) : src[k] = c

SemaIdle ==
    /\ sess = "idle" /\ content = <<>> /\ sources = <<>> /\ pc = "idle"
    /\ cur = 0 /\ start = 0 /\ base = 0 /\ pending = {} /\ taskOut = <<>>
    /\ tasks = <<>> /\ loadErrs = 0
    /\ nErrors = 0 /\ result = "none" /\ initial = <<>> /\ parseCalls = <<>>
    /\ loaderSteps = 0 /\ preSort = <<>>

ParserIdle == parser = "idle" /\ pout = <<>> /\ pstatus = "idle"

\* Lexer::new(dcx, src, start_pos, override_span): the fields, then one bump
\* (r) whose token becomes self.token.
LexerNew(L0, r) ==
    /\ lexer = [L0 EXCEPT !.pos = r.pos, !.nbsp_is_whitespace = r.nbsp, !.token = r.tok]
    /\ diags = r.diags
    /\ bumps = <<r>>
    /\ lexStatus = r.status

LexerFields(src, v, nl) ==
    [src |-> src, start_pos |-> v[1], override_span |-> v[2], pos |-> v[1],
     token |-> DUMMY, nbsp_is_whitespace |-> FALSE, nl |-> nl]

\* The lexers built on the texts of Inputs.
InitLexerOn(Inputs) ==
    /\ SemaIdle
    /\ ParserIdle
    /\ returned = <<>>
    /\ callBumps = <<>>
    /\ \E src \in Inputs, v \in LexVariants, ab \in BOOLEAN :
         \E nl \in IF has_char(src, "\"") /\ has_char(src, "\n") THEN BOOLEAN ELSE {FALSE} :
           LexerNew(LexerFields(src, v, nl), bump(LexerFields(src, v, nl), ab))

InitLexer == InitLexerOn(LexInputs)

NumEofs == Cardinality({k \in 1 .. Len(returned) : returned[k].kind = "Eof"})

\* The lexer and the logs after a next_token call that did n.
NextTokenDid(n) ==
    /\ lexer' = n.L
    /\ diags' = diags \o concat_diags(n.log, 1)
    /\ bumps' = bumps \o n.log
    /\ callBumps' = IF n.status = "ok" THEN Append(callBumps, Len(n.log)) ELSE callBumps
    /\ lexStatus' = n.status
    /\ returned' = IF n.status = "ok" THEN Append(returned, n.ret) ELSE returned

\* One call of Lexer::next_token.
NextToken ==
    /\ lexStatus = "ok"
    /\ NumEofs < MaxEofs
    /\ \E ab \in BOOLEAN : NextTokenDid(next_token(lexer, ab, <<>>))
    /\ UNCHANGED <<semaVars, parVars>>

NextLexer == NextToken

SpecLexer == InitLexer /\ [][NextLexer]_vars

(***************************************************************************)
(* Properties of the lexer                                                 *)
(***************************************************************************)
\* The texts of the examples.
Src_EqSpEq == <<"=", " ", "=">>
Src_GtSpShrEq == <<">", " ", ">", ">", "=">>
Src_SarEq == <<">", ">", ">", "=">>
Src_EqEqEq == <<"=", "=", "=">>
Src_PlusPlusPlusEq == <<"+", "+", "+", "=">>

\* The lexer was built on `src` at position 0 with no override span.
Lexing(src) == lexer.src = src /\ lexer.start_pos = 0 /\ lexer.override_span = <<>>

\* next_token has returned the first EOF: the whole input has been lexed.
LexedAll == \E k \in 1 .. Len(returned) : returned[k].kind = "Eof"

\* The byte ranges skipped by all the bumps so far.
RECURSIVE SkipsFrom(_)
SkipsFrom(k) == IF k > Len(bumps) THEN <<>> ELSE bumps[k].skips \o SkipsFrom(k + 1)

AllSkips == SkipsFrom(1)

\* The index in `bumps` of the first bump whose token went into returned[j]:
\* the token pending when the j-th next_token call began.
RECURSIVE FirstPart(_)
FirstPart(j) == IF j = 1 THEN 1 ELSE FirstPart(j - 1) + callBumps[j - 1]

LastPart(j) == FirstPart(j) + callBumps[j] - 1

\* s lies inside the span of t.
Inside(s, t) == t.lo <= s.lo /\ s.hi <= t.hi

\* C6: two tokens separated by a non-empty run of whitespace or non-doc
\* comments are never glued: no token next_token returns spans a skipped
\* whitespace or comment range, no bump that was preceded by such a run was
\* glued to the pending token, and `= =` gives Eq, Eq and `> >>=` gives Gt,
\* BinOpEq(Shr), each with its own span.
C6_WhitespaceBarrier ==
    /\ lexer.override_span = <<>> =>
          \A j \in 1 .. Len(returned) : \A k \in 1 .. Len(AllSkips) :
              AllSkips[k].class \in {"whitespace", "comment"} =>
                  ~Inside(AllSkips[k], returned[j])
    /\ \A j \in 1 .. Len(returned) : \A k \in (FirstPart(j) + 1) .. LastPart(j) :
          \A i \in 1 .. Len(bumps[k].skips) :
              bumps[k].skips[i].class \notin {"whitespace", "comment"}
    /\ (Lexing(Src_EqSpEq) /\ LexedAll) =>
          /\ returned[1] = Tok("Eq", "", <<>>, <<0, 1>>)
          /\ returned[2] = Tok("Eq", "", <<>>, <<2, 3>>)
          /\ returned[3].kind = "Eof"
    /\ (Lexing(Src_GtSpShrEq) /\ LexedAll) =>
          /\ returned[1] = Tok("Gt", "", <<>>, <<0, 1>>)
          /\ returned[2] = Tok("BinOpEq", "Shr", <<>>, <<2, 5>>)
          /\ returned[3].kind = "Eof"

\* `> >>=` has been lexed to its end.
C6_Witness ==
    /\ Lexing(Src_GtSpShrEq)
    /\ LexedAll
    /\ Len(returned) = 3
    /\ returned[2].kind = "BinOpEq"

\* The tokens of bumps a .. b glued from left to right: <<>> when a glue on
\* the way is undefined.
RECURSIVE GlueAll(_, _)
GlueAll(a, b) ==
    IF a = b THEN <<bumps[a].tok>>
    ELSE IF GlueAll(a, b - 1) = <<>> THEN <<>>
    ELSE glue(GlueAll(a, b - 1)[1], bumps[b].tok)

\* C7: glueing is greedy and left to right with one pending token: every
\* token next_token returns is the left-to-right glue of consecutive bump
\* tokens, spans from the start of the first to the end of the last, and ends
\* where the next bump was preceded by whitespace or does not glue with it; a
\* bump token goes into one returned token only.  `>>>=` is BinOpEq(Sar)
\* [0,4), `===` is EqEq then Eq, `+++=` is PlusPlus then BinOpEq(Plus).
C7_GreedyGlue ==
    /\ \A j \in 1 .. Len(returned) :
          /\ callBumps[j] >= 1
          /\ LastPart(j) < Len(bumps)
          /\ GlueAll(FirstPart(j), LastPart(j)) = <<returned[j]>>
          /\ lexer.override_span = <<>> =>
                /\ returned[j].lo = bumps[FirstPart(j)].tok.lo
                /\ returned[j].hi = bumps[LastPart(j)].tok.hi
          /\ \/ bumps[LastPart(j) + 1].pws
             \/ glue(returned[j], bumps[LastPart(j) + 1].tok) = <<>>
    /\ (Lexing(Src_SarEq) /\ LexedAll) =>
          /\ returned[1] = Tok("BinOpEq", "Sar", <<>>, <<0, 4>>)
          /\ returned[2].kind = "Eof"
    /\ (Lexing(Src_EqEqEq) /\ LexedAll) =>
          /\ returned[1] = Tok("EqEq", "", <<>>, <<0, 2>>)
          /\ returned[2] = Tok("Eq", "", <<>>, <<2, 3>>)
          /\ returned[3].kind = "Eof"
    /\ (Lexing(Src_PlusPlusPlusEq) /\ LexedAll) =>
          /\ returned[1] = Tok("PlusPlus", "", <<>>, <<0, 2>>)
          /\ returned[2] = Tok("BinOpEq", "Plus", <<>>, <<2, 4>>)
          /\ returned[3].kind = "Eof"

\* `>>>=` has been lexed to its end: four bumps went into the one token.
C7_Witness ==
    /\ Lexing(Src_SarEq)
    /\ LexedAll
    /\ callBumps[1] = 4
    /\ returned[1].sub = "Sar"

\* The tokens returned so far, the EOF tokens left out.
NonEof == SelectSeq(returned, LAMBDA t : t.kind # "Eof")

\* The bytes of the input, as positions.
SrcBytes == lexer.start_pos .. (lexer.start_pos + Len(lexer.src) - 1)

\* The number of returned tokens and of skipped ranges in `classes` that hold
\* the byte at position p.
Covers(p, classes) ==
    Cardinality({j \in 1 .. Len(NonEof) : NonEof[j].lo <= p /\ p < NonEof[j].hi})
    + Cardinality({k \in 1 .. Len(AllSkips) :
                     /\ AllSkips[k].class \in classes
                     /\ AllSkips[k].lo <= p /\ p < AllSkips[k].hi})

\* The spans of the returned tokens are non-empty, increasing, disjoint and
\* inside the input; once the input is lexed, every byte is in one token span
\* or in one skipped range of `classes`.
SpansPartition(classes) ==
    lexer.override_span = <<>> =>
        /\ \A j \in 1 .. Len(NonEof) :
              /\ lexer.start_pos <= NonEof[j].lo
              /\ NonEof[j].lo < NonEof[j].hi
              /\ NonEof[j].hi <= lexer.start_pos + Len(lexer.src)
              /\ j > 1 => NonEof[j - 1].hi <= NonEof[j].lo
        /\ LexedAll => \A p \in SrcBytes : Covers(p, classes) = 1

\* C8 as stated: with no override span the returned tokens have strictly
\* increasing, disjoint spans inside the input, and every byte outside the
\* token spans belongs to skipped whitespace or a skipped non-doc comment, so
\* tokens and skipped whitespace and comments rebuild the input.
C8_SpansRebuildInput == SpansPartition({"whitespace", "comment"})

\* C8 (amended): with no override span the returned tokens have strictly
\* increasing, disjoint spans inside the input, and every byte outside the
\* token spans belongs to skipped whitespace, a skipped non-doc comment or a
\* skipped unknown character, so tokens and skipped bytes rebuild the input.
C8_SpansRebuildInputWithUnknown == SpansPartition({"whitespace", "comment", "unknown"})

\* A lexer at start_pos 2 that has lexed to the end an input with two tokens,
\* whitespace and an unknown character.
C8_Witness ==
    /\ lexer.src = <<"=", " ", "#", "a">>
    /\ lexer.start_pos = 2
    /\ lexer.override_span = <<>>
    /\ LexedAll
    /\ Len(NonEof) = 2

\* C10 as stated: when the cursor reports an unterminated string, hex string
\* or block comment, the lexer emits a fatal diagnostic and the token bump
\* yields for it is EOF.
C10_UnterminatedYieldsEof ==
    /\ lexStatus # "fatal"
    /\ \A k \in 1 .. Len(bumps) :
          (bumps[k].status = "ok" /\ bumps[k].unterm) =>
              /\ bumps[k].tok.kind = "Eof"
              /\ \E i \in 1 .. Len(bumps[k].diags) : bumps[k].diags[i].level = "fatal"

\* Every byte of the input was skipped as whitespace or as a non-doc comment.
OnlyBlank ==
    \A p \in SrcBytes : \E k \in 1 .. Len(AllSkips) :
        /\ AllSkips[k].class \in {"whitespace", "comment"}
        /\ AllSkips[k].lo <= p /\ p < AllSkips[k].hi

\* The lexer's position as an offset into the input, whatever the spans are.
Exhausted == lexer.pos = lexer.start_pos + Len(lexer.src)

\* C19: once the input is exhausted the lexer stays at EOF: after the first
\* EOF every token next_token returns is EOF and Iterator::next gives None
\* for it; the position stays at the end of the input, which it never
\* exceeds; an input of whitespace and non-doc comments only (the empty input
\* too) yields no token: the first token returned is EOF.
C19_EofIsSticky ==
    /\ lexer.pos <= lexer.start_pos + Len(lexer.src)
    /\ lexer.pos >= lexer.start_pos
    /\ \A j \in 1 .. Len(returned) :
          is_eof(returned[j]) =>
              /\ Exhausted
              /\ \A k \in j .. Len(returned) :
                    /\ is_eof(returned[k])
                    /\ iterator_next(returned[k]) = <<>>
    /\ \A j \in 1 .. Len(returned) : ~is_eof(returned[j]) => iterator_next(returned[j]) = <<returned[j]>>
    /\ (is_eof(lexer.token) /\ lexStatus = "ok") => Exhausted
    /\ (lexer.override_span = <<>> /\ LexedAll /\ OnlyBlank) => NonEof = <<>>
    /\ (lexer.src = <<>> /\ returned # <<>>) => is_eof(returned[1])

\* A line comment and a new line: next_token has returned EOF twice, and
\* nothing else.
C19_Witness ==
    /\ lexer.src = <<"/", "/", "a", "\n">>
    /\ returned # <<>>
    /\ Len(returned) = MaxEofs
    /\ \A k \in 1 .. Len(returned) : is_eof(returned[k])
    /\ Exhausted

(***************************************************************************)
(* Doc comments: the lexer on texts that begin with a doc comment.         *)
(***************************************************************************)
\* Longest doc-comment content of the exhaustive inputs.
MaxDocLen == 4

DocAlphabet == {"\r", "\n", " ", "x"}

\* `/** \r x */`, the example of the specification.
Src_DocCr == <<"/", "*", "*", " ", "\r", " ", "x", " ", "*", "/">>

\* A doc-comment opener, a content, and what follows: nothing, the closing
\* delimiter of a block comment, or a new line and a token.
DocInputs ==
    {open \o text \o close :
        open \in {<<"/", "*", "*">>, <<"/", "/", "/">>},
        text \in SeqsUpTo(DocAlphabet, MaxDocLen),
        close \in {<<>>, <<"*", "/">>, <<"\n", "=">>}}
    \cup {Src_DocCr}

InitLexerDoc == InitLexerOn(DocInputs)

SpecLexerDoc == InitLexerDoc /\ [][NextLexer]_vars

BareCrMsgs == {"bare CR not allowed in block doc-comment", "bare CR not allowed in doc-comment"}

\* The diagnostics about a CR that the k-th bump emitted, as indices.
CrDiags(k) == {i \in 1 .. Len(bumps[k].diags) : bumps[k].diags[i].msg \in BareCrMsgs}

\* The positions of the bare CRs in the content of the doc comment of the
\* k-th bump: the `\r` that are not immediately followed by `\n`.
BareCrs(k) ==
    {bumps[k].tok.lo + 3 + idx : idx \in
        {i \in 0 .. (Len(bumps[k].tok.sym) - 1) :
            /\ bumps[k].tok.sym[i + 1] = "\r"
            /\ first(lexer.src, src_index(lexer, bumps[k].tok.lo + 3 + i + 1)) # "\n"}}

\* The content of the doc comment of the k-th bump, read from the input.
DocContent(k) ==
    str_from_to(lexer, bumps[k].tok.lo + 3,
                bumps[k].tok.hi - (IF bumps[k].tok.sub = "Block" /\ ~bumps[k].unterm
                                   THEN 2 ELSE 0))

\* C11 as stated: for every doc comment, cook_doc_comment reports one error
\* per bare CR of the content (a `\r` not immediately followed by `\n`), with
\* the one-byte span of that CR, and none for a `\r` that is followed by `\n`;
\* the doc-comment token holds the full content.
C11_OneErrorPerBareCr ==
    lexer.override_span = <<>> =>
        \A k \in 1 .. Len(bumps) :
            (bumps[k].status = "ok" /\ bumps[k].tok.kind = "DocComment") =>
                /\ bumps[k].tok.sym = DocContent(k)
                /\ Cardinality(CrDiags(k)) = Cardinality(BareCrs(k))
                /\ \A p \in BareCrs(k) : \E i \in CrDiags(k) :
                      /\ bumps[k].diags[i].lo = p
                      /\ bumps[k].diags[i].hi = p + 1
                      /\ bumps[k].diags[i].level = "err"
                      /\ bumps[k].diags[i].msg =
                            IF bumps[k].tok.sub = "Block"
                            THEN "bare CR not allowed in block doc-comment"
                            ELSE "bare CR not allowed in doc-comment"

(***************************************************************************)
(* Unknown characters: the lexer on texts with characters that start no    *)
(* token.                                                                  *)
(***************************************************************************)
\* Longest text, in characters, of the exhaustive inputs.
MaxUnkLen == 4

UnknownChars == {"#", "@", NBSP}

UnkAlphabet == UnknownChars \cup {"=", " "}

UnkInputs == {utf8(chars) : chars \in SeqsUpTo(UnkAlphabet, MaxUnkLen)}

InitLexerUnk == InitLexerOn(UnkInputs)

SpecLexerUnk == InitLexerUnk /\ [][NextLexer]_vars

\* The character that ends just before byte offset p is c.
PrevIs(p, c) == p >= len_utf8(c) /\ lexer.src[p - len_utf8(c) + 1] = c

\* The number of characters of the maximal run of c that starts at offset p.
RunLen(p, c) ==
    CHOOSE n \in 1 .. Len(lexer.src) :
        /\ \A i \in 0 .. (n - 1) : first(lexer.src, p + i * len_utf8(c)) = c
        /\ first(lexer.src, p + n * len_utf8(c)) # c

\* The maximal runs of identical unknown characters of the input: the
\* character, the positions [lo, hi) and the number of characters.
Runs ==
    {[c |-> lexer.src[p + 1],
      lo |-> lexer.start_pos + p,
      hi |-> lexer.start_pos + p + RunLen(p, lexer.src[p + 1]) * len_utf8(lexer.src[p + 1]),
      len |-> RunLen(p, lexer.src[p + 1])] :
        p \in {q \in 0 .. (Len(lexer.src) - 1) :
                  /\ lexer.src[q + 1] \in UnknownChars
                  /\ ~PrevIs(q, lexer.src[q + 1])}}

\* The `unknown start of token` diagnostics emitted so far, as indices.
UnknownDiags == {i \in 1 .. Len(diags) : diags[i].msg = "unknown start of token"}

\* The run r was reported: one diagnostic names its character, its span is
\* the whole run, and its note tells the number of repeats (none for 0).
ReportedOnce(r) ==
    Cardinality({i \in UnknownDiags :
                    /\ diags[i].lo = r.lo /\ diags[i].hi = r.hi
                    /\ diags[i].arg = r.c
                    /\ diags[i].note = r.len - 1
                    /\ diags[i].level = "err"}) = 1

\* Every character of the run r was skipped as an unknown raw token.
Swallowed(r) ==
    \A i \in 0 .. (r.len - 1) : \E k \in 1 .. Len(AllSkips) :
        /\ AllSkips[k].class = "unknown"
        /\ AllSkips[k].lo = r.lo + i * len_utf8(r.c)
        /\ AllSkips[k].hi = r.lo + (i + 1) * len_utf8(r.c)

\* The runs of `runs` are reported once each, and nothing else is reported.
RunsReported(runs) ==
    (lexer.override_span = <<>> /\ LexedAll) =>
        /\ \A r \in Runs : Swallowed(r)
        /\ \A r \in runs : ReportedOnce(r)
        /\ Cardinality(UnknownDiags) = Cardinality(runs)

\* C17 as stated: every maximal run of n + 1 identical unknown characters
\* gets exactly one `unknown start of token` diagnostic, whose span is the
\* whole run and which has a repeat note iff n > 0; the n characters after
\* the first are consumed with no diagnostic; runs of different characters
\* are not merged.
C17_OneDiagnosticPerRun == RunsReported(Runs)

\* The runs of U+00A0 that come after another run of U+00A0.
LaterNbspRuns == {r \in Runs : r.c = NBSP /\ \E q \in Runs : q.c = NBSP /\ q.lo < r.lo}

\* C17 (amended): the same for every maximal run except the runs of U+00A0
\* that come after an earlier run of U+00A0: those are skipped with no
\* diagnostic.
C17_OneDiagnosticPerRunButLaterNbsp == RunsReported(Runs \ LaterNbspRuns)

\* `##@#` has been lexed: three runs, the first with one repeat.
C17_Witness ==
    /\ lexer.src = <<"#", "#", "@", "#">>
    /\ lexer.override_span = <<>>
    /\ LexedAll
    /\ Cardinality(Runs) = 3
    /\ Cardinality(UnknownDiags) = 3
    /\ diags[1].note = 1

\* The diagnostics that name U+00A0.
NbspDiags == {i \in UnknownDiags : diags[i].arg = NBSP}

\* The byte offsets of the U+00A0 characters of the input.
NbspAt == {p \in 0 .. (Len(lexer.src) - 1) : lexer.src[p + 1] = NBSP}

\* C18: one lexer emits at most one diagnostic for U+00A0; it is the one for
\* the first occurrence with its run; nbsp_is_whitespace is set from then on
\* and is never reset; every later U+00A0 is skipped with no diagnostic, and
\* one that is outside the first run counts as whitespace before the next
\* token.
C18_NbspReportedOnce ==
    /\ Cardinality(NbspDiags) <= 1
    /\ lexer.nbsp_is_whitespace <=> NbspDiags # {}
    /\ \A k \in 1 .. Len(bumps) : \A i \in 1 .. Len(bumps[k].skips) :
          LET sk == bumps[k].skips[i]
          IN (/\ lexer.override_span = <<>>
              /\ sk.class = "unknown"
              /\ lexer.src[src_index(lexer, sk.lo) + 1] = NBSP) =>
                 \E d \in NbspDiags :
                     /\ diags[d].lo = lexer.start_pos + (CHOOSE p \in NbspAt : \A q \in NbspAt : p <= q)
                     /\ diags[d].lo <= sk.lo
                     /\ sk.hi <= diags[d].hi \/ bumps[k].pws
    /\ (lexer.override_span = <<>> /\ LexedAll) =>
          \A p \in NbspAt : \E k \in 1 .. Len(AllSkips) :
              /\ AllSkips[k].class = "unknown"
              /\ AllSkips[k].lo = lexer.start_pos + p
              /\ AllSkips[k].hi = lexer.start_pos + p + 2

\* U+00A0 twice, `=`, U+00A0, `=` has been lexed: one diagnostic, for the
\* first run, and two tokens.
C18_Witness ==
    /\ lexer.src = <<NBSP, NBSP_CONT, NBSP, NBSP_CONT, "=", NBSP, NBSP_CONT>>
    /\ lexer.override_span = <<>>
    /\ LexedAll
    /\ Cardinality(NbspDiags) = 1
    /\ diags[1].hi - diags[1].lo = 4
    /\ lexer.nbsp_is_whitespace

(***************************************************************************)
(* Quoted literals: the lexer on texts that begin with a string literal.   *)
(***************************************************************************)
\* Longest literal content of the exhaustive inputs.
MaxLitLen == 3

LitAlphabet == {"\\", "n", "q", "a", "0", "_", NBSP}

LitPrefixes == {<<>>, <<"h", "e", "x">>, <<"u", "n", "i", "c", "o", "d", "e">>}

\* A prefix or none, the opening quote, a content, and the closing quote or
\* the end of the input.
LitInputs ==
    {prefix \o <<"\"">> \o utf8(text) \o close :
        prefix \in LitPrefixes,
        text \in SeqsUpTo(LitAlphabet, MaxLitLen),
        close \in {<<>>, <<"\"">>}}

InitLexerLit == InitLexerOn(LitInputs)

SpecLexerLit == InitLexerLit /\ [][NextLexer]_vars

\* The k-th bump cooked a quoted literal.
IsQuoted(k) ==
    /\ bumps[k].status = "ok"
    /\ bumps[k].tok.kind = "Literal"
    /\ bumps[k].tok.sub \notin {"Integer", "Rational"}

\* The offset in the input of the opening quote of the literal of bump k.
QuoteAt(k) ==
    eat_while(lexer.src, src_index(lexer, bumps[k].tok.lo), Letters)

\* The kind the prefix of the literal of bump k selects.
KindByPrefix(k) ==
    CASE QuoteAt(k) - src_index(lexer, bumps[k].tok.lo) = 3 -> "HexStr"
      [] QuoteAt(k) - src_index(lexer, bumps[k].tok.lo) = 7 -> "UnicodeStr"
      [] OTHER -> "Str"

\* The raw content of the literal of bump k: the text after the opening
\* quote, up to the closing quote, or up to the end of the literal when it
\* has none.
RawContent(k) ==
    SubSeq(lexer.src, QuoteAt(k) + 2,
           src_index(lexer, bumps[k].tok.hi) - (IF bumps[k].unterm THEN 0 ELSE 1))

\* The whole text of the token of bump k.
Lexeme(k) == str_from_to(lexer, bumps[k].tok.lo, bumps[k].tok.hi)

\* The escape errors bump k reported.
EscapeDiags(k) == {i \in 1 .. Len(bumps[k].diags) : bumps[k].diags[i].msg = "invalid escape"}

\* C20 as stated: for a quoted literal, cook_quoted yields kind Err and a
\* symbol with the prefix and the quotes iff an escape error was reported for
\* its content; otherwise it yields the kind the prefix selects (Str,
\* UnicodeStr, HexStr) and the raw content between the quotes as symbol.
C20_ErrIffEscapeError ==
    lexer.override_span = <<>> =>
        \A k \in 1 .. Len(bumps) :
            IsQuoted(k) =>
                IF EscapeDiags(k) # {}
                THEN /\ bumps[k].tok.sub = "Err"
                     /\ bumps[k].tok.sym = Lexeme(k)
                ELSE /\ bumps[k].tok.sub = KindByPrefix(k)
                     /\ bumps[k].tok.sym = RawContent(k)

\* The same for the literals that have their closing quote.
TerminatedErrIffEscapeError ==
    lexer.override_span = <<>> =>
        \A k \in 1 .. Len(bumps) :
            (IsQuoted(k) /\ ~bumps[k].unterm) =>
                IF EscapeDiags(k) # {}
                THEN /\ bumps[k].tok.sub = "Err"
                     /\ bumps[k].tok.sym = Lexeme(k)
                ELSE /\ bumps[k].tok.sub = KindByPrefix(k)
                     /\ bumps[k].tok.sym = RawContent(k)

(***************************************************************************)
(* Number literals: the lexer on texts that begin with a digit.            *)
(***************************************************************************)
\* Longest text after the first digit of the exhaustive inputs.
MaxNumLen == 3

NumAlphabet == {"0", "1", "x", "b", ".", "e", "_", "-"}

NumScenarios ==
    {<<"0", "o">>, <<"0", "o", "1">>, <<"0", "o", "1", ".">>, <<"0", "o", "1", "e">>,
     <<"0", "o", "1", "e", "1">>, <<"0", "x", "1", ".", "0", "e">>,
     <<"0", "x", "1", ".", "0", "e", "-", "1">>, <<"1", ".", "0", "e", "+", "1">>}

NumInputs ==
    {<<d>> \o rest : d \in {"0", "1"}, rest \in SeqsUpTo(NumAlphabet, MaxNumLen)}
        \cup NumScenarios

InitLexerNum == InitLexerOn(NumInputs)

SpecLexerNum == InitLexerNum /\ [][NextLexer]_vars

\* The raw token the cursor gave to bump k.
RawOf(k) == advance_token(lexer.src, src_index(lexer, bumps[k].tok.lo), lexer.nl)

\* Bump k cooked a raw literal of kind `lit`.
IsNumber(k, lit) ==
    /\ bumps[k].status = "ok"
    /\ bumps[k].tok.kind = "Literal"
    /\ RawOf(k).lit = lit

\* The errors that name a base.
BaseMsgs == {"integers in base are not supported", "rational numbers are not supported"}

\* Bump k reported exactly the errors msgs, in that order, the ones about a
\* base naming the base of its literal.
Reported(k, msgs) ==
    /\ Len(bumps[k].diags) = Len(msgs)
    /\ \A i \in 1 .. Len(msgs) :
          /\ bumps[k].diags[i].level = "err"
          /\ bumps[k].diags[i].msg = msgs[i]
          /\ bumps[k].diags[i].arg \in {"", RawOf(k).base}
          /\ (bumps[k].diags[i].arg = "") = (msgs[i] \notin BaseMsgs)

\* C21: an integer literal always yields the kind Integer.  With no digits
\* after the base prefix there is exactly one error and the symbol is `0`;
\* with digits in base 2 or 8 there is exactly one error `integers in base
\* <b> are not supported` and the symbol is the whole lexeme, prefix
\* included; with digits in base 10 or 16 there is no diagnostic and the
\* symbol is the whole lexeme.
C21_IntegerLiteral ==
    lexer.override_span = <<>> =>
        \A k \in 1 .. Len(bumps) :
            IsNumber(k, "Int") =>
                /\ bumps[k].tok.sub = "Integer"
                /\ CASE RawOf(k).empty ->
                          /\ Reported(k, <<"no valid digits found for number">>)
                          /\ bumps[k].tok.sym = <<"0">>
                     [] ~RawOf(k).empty /\ RawOf(k).base \in {"Binary", "Octal"} ->
                          /\ Reported(k, <<"integers in base are not supported">>)
                          /\ bumps[k].tok.sym = Lexeme(k)
                     [] OTHER ->
                          /\ Reported(k, <<>>)
                          /\ bumps[k].tok.sym = Lexeme(k)

\* `0b1` was cooked: Integer, one error, and the symbol `0b1`.
C21_Witness ==
    /\ lexer.override_span = <<>>
    /\ lexer.src = <<"0", "b", "1">>
    /\ IsNumber(1, "Int")
    /\ RawOf(1).base = "Binary"
    /\ bumps[1].tok.sym = <<"0", "b", "1">>
    /\ Len(bumps[1].diags) = 1

\* C22: a rational literal always yields the kind Rational and the whole
\* lexeme as symbol.  An empty exponent adds one error, a base of 2, 8 or 16
\* adds one error, both add both, and a decimal literal whose exponent is
\* not empty has no diagnostic.
C22_RationalLiteral ==
    lexer.override_span = <<>> =>
        \A k \in 1 .. Len(bumps) :
            IsNumber(k, "Rational") =>
                /\ bumps[k].tok.sub = "Rational"
                /\ bumps[k].tok.sym = Lexeme(k)
                /\ Reported(k,
                       (IF RawOf(k).empty
                        THEN <<"expected at least one digit in exponent">> ELSE <<>>)
                       \o (IF RawOf(k).base # "Decimal"
                           THEN <<"rational numbers are not supported">> ELSE <<>>))

\* `0b1e` was cooked: Rational, with the two errors.
C22_Witness ==
    /\ lexer.override_span = <<>>
    /\ lexer.src = <<"0", "b", "1", "e">>
    /\ IsNumber(1, "Rational")
    /\ RawOf(1).empty
    /\ RawOf(1).base = "Binary"
    /\ Len(bumps[1].diags) = 2
    /\ bumps[1].tok.sym = lexer.src

(***************************************************************************)
(* Parser (crates/parse/src/parser/stmt.rs)                                *)
(*                                                                         *)
(* P is the Parser: [toks, i], the cooked tokens of the input and the      *)
(* 0-based index of the current token; past the end the token is Eof.      *)
(* Tokens are written as their text: "(", ")", "," and the identifiers.    *)
(***************************************************************************)
\* Longest token stream parsed.
MaxToks == 5

Idents == {"a", "b"}
ParserToks == {"(", ")", ","} \cup Idents

\* The identifier tokens: the keywords, the storage-location specifiers and
\* the elementary type names are reserved, the others are not (`revert` is
\* not reserved).
Keywords ==
    {"if", "else", "while", "do", "for", "unchecked", "continue", "break", "return",
     "throw", "try", "catch", "returns", "assembly", "emit", "mapping", "function",
     "payable"}
LocationSpecifiers == {"memory", "storage", "calldata"}
ElementaryTypes == {"uint256", "address"}
NonReserved == Idents \cup {"x", "y", "revert"}
Literals == {"3"}

\* Token::is_ident, is_non_reserved_ident, is_location_specifier and
\* is_elementary_type.
is_ident(t) == t \in NonReserved \cup Keywords \cup LocationSpecifiers \cup ElementaryTypes
is_non_reserved_ident(t) == t \in NonReserved
is_location_specifier(t) == t \in LocationSpecifiers
is_elementary_type(t) == t \in ElementaryTypes

\* self.token
parser_token(P) == IF P.i < Len(P.toks) THEN P.toks[P.i + 1] ELSE "Eof"

\* Parser::look_ahead(dist): the token `dist` tokens after the current one.
look_ahead(P, dist) == IF P.i + dist < Len(P.toks) THEN P.toks[P.i + dist + 1] ELSE "Eof"

\* Parser::check: the current token is `t`.
parser_check(P, t) == parser_token(P) = t

\* Parser::bump: advance to the next token.
parser_bump(P) == [P EXCEPT !.i = @ + 1]

\* Parser::eat: consume the current token if it is `t`; [ate, P].
parser_eat(P, t) ==
    IF parser_check(P, t) THEN [ate |-> TRUE, P |-> parser_bump(P)]
    ELSE [ate |-> FALSE, P |-> P]

\* Parser::expect: consume the current token if it is `t`, an error if not.
parser_expect(P, t) ==
    IF parser_check(P, t) THEN [ok |-> TRUE, P |-> parser_bump(P)]
    ELSE [ok |-> FALSE, P |-> P]

\* DiagCtxt::err(msg).emit() by the parser: the error is recorded, parsing goes on.
parser_emit(P, msg) == [P EXCEPT !.errs = Append(@, msg)]

None == [some |-> FALSE, v |-> ""]
Some(x) == [some |-> TRUE, v |-> x]

PResult(ok, P, out) == [ok |-> ok, P |-> P, out |-> out]

\* Err(..): the production failed at P.
PErr(P) == PResult(FALSE, P, <<>>)

\* The `?` operator: go on with K from the result r of a production, or
\* return its error.
and_then(r, K(_)) == IF r.ok THEN K(r) ELSE r

\* Result::map: the value of a production that succeeded, tagged.
pmap(r, tag) == IF r.ok THEN [r EXCEPT !.out = <<tag, @>>] ELSE r

\* Result::map(Some)
psome(r) == IF r.ok THEN [r EXCEPT !.out = Some(@)] ELSE r

\* The error of a production, its partial value dropped.
perr(r) == IF r.ok THEN r ELSE PErr(r.P)

\* Parser::parse_ident: consume an identifier, an error if there is none.
parse_ident(P) ==
    IF is_non_reserved_ident(parser_token(P))
    THEN [ok |-> TRUE, P |-> parser_bump(P), v |-> parser_token(P)]
    ELSE [ok |-> FALSE, P |-> P, v |-> ""]

(***************************************************************************)
(* Expressions, types and variable definitions (parser/expr.rs, ty.rs and  *)
(* item.rs), as far as the statements need them.  An expression is a       *)
(* primary (identifier, literal, elementary type, tuple) with the postfix  *)
(* forms `.id`, `[..]`, `(..)` and an assignment `= e`.  Values are tagged *)
(* tuples: <<"Ident", x>>, <<"Index", e, kind>>, <<"Array", ty, size>> ... *)
(***************************************************************************)
\* The productions call each other: an expression has tuples, a type has
\* index expressions, a statement has statements.
RECURSIVE parse_expr_primary(_), parse_expr_with(_, _), parse_expr(_)
RECURSIVE parse_expr_unless(_, _), parse_call_args(_), parse_expr_index_end(_)
RECURSIVE parse_type(_), parse_variable_definition_with(_, _, _)
RECURSIVE parse_variable_definition(_, _), parse_parameter_list(_)
RECURSIVE items_seq_required_iter(_, _, _), items_seq_first(_, _), parse_block(_)
RECURSIVE parse_paren_expr(_), parse_stmt_else(_), parse_stmt_if(_)
RECURSIVE parse_stmt_while(_), parse_stmt_do_while(_), parse_stmt_try_block(_)
RECURSIVE parse_stmt_try_optional_catch(_), parse_stmt_try(_), parse_stmt_assembly(_)
RECURSIVE parse_path_call(_), parse_iap(_), try_parse_iap_expression(_)
RECURSIVE try_parse_iap(_), parse_decl_multi(_, _), parse_expr_tuple(_, _)
RECURSIVE parse_simple_stmt_decl(_, _, _), parse_simple_stmt_expr(_, _, _)
RECURSIVE parse_simple_stmt_kind(_), parse_stmt_for_init(_), parse_stmt_for_expr(_, _)
RECURSIVE parse_stmt_for(_), parse_stmt_return(_), parse_stmt_kind_dispatch(_)
RECURSIVE parse_stmt_kind_always_semi(_), parse_stmt_kind(_)
RECURSIVE parse_expr_postfix(_), parse_expr_index_kind(_), parse_comma_seq(_, _, _)
RECURSIVE parse_optional_items_seq(_, _), parse_item(_, _)

\* The primary expression at the current token.
parse_expr_primary(P) ==
    LET t == parser_token(P)
    IN CASE is_non_reserved_ident(t) -> PResult(TRUE, parser_bump(P), <<"Ident", t>>)
         [] t \in Literals -> PResult(TRUE, parser_bump(P), <<"Lit", t>>)
         [] is_elementary_type(t) ->
              PResult(TRUE, parser_bump(P), <<"Type", <<"Elementary", t>>>>)
         [] t = "(" -> pmap(parse_optional_items_seq(P, "parse_expr"), "Tuple")
         [] OTHER -> PErr(P)

\* Parser::parse_expr_with: go on from the expression `with`, or from a
\* primary when there is none.
parse_expr_with(P, with) ==
    parse_expr_postfix(IF with.some THEN PResult(TRUE, P, with.v)
                       ELSE parse_expr_primary(P))

\* Parser::parse_expr
parse_expr(P) == parse_expr_with(P, None)

\* An optional expression: none when the current token is one of `stops`.
parse_expr_unless(P, stops) ==
    IF parser_token(P) \in stops THEN PResult(TRUE, P, None)
    ELSE psome(parse_expr(P))

\* Parser::parse_call_args: `(` e, e, ... `)`.
parse_call_args(P) ==
    IF ~parser_check(P, "(") THEN PErr(P)
    ELSE IF parser_check(parser_bump(P), ")")
    THEN PResult(TRUE, parser_bump(parser_bump(P)), <<>>)
    ELSE parse_comma_seq(parser_bump(P), "parse_expr", <<>>)

\* The postfix forms and the assignment on top of the expression r.out.
parse_expr_postfix(r) ==
    IF ~r.ok THEN r
    ELSE LET t == parser_token(r.P)
             member == look_ahead(r.P, 1)
         IN CASE t = "." ->
                   IF ~is_non_reserved_ident(member) /\ member # "address"
                   THEN PErr(parser_bump(r.P))
                   ELSE parse_expr_postfix(PResult(TRUE, parser_bump(parser_bump(r.P)),
                                                   <<"Member", r.out, member>>))
              [] t = "[" ->
                   and_then(parse_expr_index_kind(r.P), LAMBDA index :
                       parse_expr_postfix(
                           PResult(TRUE, index.P, <<"Index", r.out, index.out>>)))
              [] t = "(" ->
                   and_then(parse_call_args(r.P), LAMBDA args :
                       parse_expr_postfix(
                           PResult(TRUE, args.P, <<"Call", r.out, args.out>>)))
              [] t = "=" ->
                   and_then(parse_expr(parser_bump(r.P)), LAMBDA rhs :
                       PResult(TRUE, rhs.P, <<"Assign", r.out, rhs.out>>))
              [] OTHER -> r

\* parse_expr_index_kind after the `[` and the lower expression lo, if any:
\* `]` ends an Index, `:` goes on to the upper expression of a Range.
parse_expr_index_end(lo) ==
    IF parser_check(lo.P, ":")
    THEN and_then(parse_expr_unless(parser_bump(lo.P), {"]"}), LAMBDA hi :
             IF ~parser_check(hi.P, "]") THEN PErr(hi.P)
             ELSE PResult(TRUE, parser_bump(hi.P), <<"Range", lo.out, hi.out>>))
    ELSE IF ~parser_check(lo.P, "]") THEN PErr(lo.P)
    ELSE PResult(TRUE, parser_bump(lo.P), <<"Index", lo.out>>)

\* Parser::parse_expr_index_kind: `[e?]` is Index(e?), `[e?:e?]` is
\* Range(e?, e?).
parse_expr_index_kind(P) ==
    IF ~parser_check(P, "[") THEN PErr(P)
    ELSE and_then(parse_expr_unless(parser_bump(P), {":", "]"}), parse_expr_index_end)

\* The `[size?]` suffixes of a type.
RECURSIVE parse_type_arrays(_)
parse_type_arrays(r) ==
    IF ~r.ok \/ ~parser_check(r.P, "[") THEN r
    ELSE and_then(parse_expr_index_kind(r.P), LAMBDA index :
             IF index.out[1] # "Index" THEN PErr(index.P)
             ELSE parse_type_arrays(
                      PResult(TRUE, index.P, <<"Array", r.out, index.out[2]>>)))

\* Parser::parse_type: an elementary type or a custom type, with its array
\* suffixes.
parse_type(P) ==
    LET t == parser_token(P)
    IN parse_type_arrays(
           IF is_elementary_type(t) THEN PResult(TRUE, parser_bump(P), <<"Elementary", t>>)
           ELSE IF is_non_reserved_ident(t)
           THEN PResult(TRUE, parser_bump(P), <<"Custom", <<t>>>>)
           ELSE PErr(P))

\* Parser::parse_variable_definition_with(flags, ty): the type unless it is
\* given, a storage location if there is one, the name (optional for a
\* parameter), and for VarFlags::VAR an initializer `= e` if there is one.
parse_variable_definition_with(P, flags, ty) ==
    and_then(IF ty.some THEN PResult(TRUE, P, ty.v) ELSE parse_type(P), LAMBDA t :
        LET loc == IF is_location_specifier(parser_token(t.P))
                   THEN PResult(TRUE, parser_bump(t.P), Some(parser_token(t.P)))
                   ELSE PResult(TRUE, t.P, None)
            name == parse_ident(loc.P)
            var(n, i) == [ty |-> t.out, loc |-> loc.out, name |-> n, init |-> i]
        IN IF ~name.ok
           THEN IF flags = "PARAM" THEN PResult(TRUE, loc.P, var(None, None))
                ELSE PErr(name.P)
           ELSE and_then(IF flags = "VAR" /\ parser_check(name.P, "=")
                         THEN psome(parse_expr(parser_bump(name.P)))
                         ELSE PResult(TRUE, name.P, None),
                         LAMBDA init : PResult(TRUE, init.P, var(Some(name.v), init.out))))

\* Parser::parse_variable_definition(flags)
parse_variable_definition(P, flags) == parse_variable_definition_with(P, flags, None)

\* The callback `f` of a sequence parser, by its name.
parse_item(P, f) ==
    CASE f = "parse_ident" -> PResult(parse_ident(P).ok, parse_ident(P).P, parse_ident(P).v)
      [] f = "parse_expr" -> parse_expr(P)
      [] OTHER -> parse_variable_definition(
                      P, IF f = "parse_parameter" THEN "PARAM" ELSE "FUNCTION")

\* Parser::parse_paren_comma_seq after the `(` when the list is not empty:
\* items parsed by f, separated by commas, then the `)`.
parse_comma_seq(P, f, out) ==
    and_then(parse_item(P, f), LAMBDA r :
        IF parser_check(r.P, ",")
        THEN parse_comma_seq(parser_bump(r.P), f, Append(out, r.out))
        ELSE IF parser_check(r.P, ")")
        THEN PResult(TRUE, parser_bump(r.P), Append(out, r.out))
        ELSE PErr(r.P))

\* Parser::parse_parameter_list(false, flags): `(` parameter, ... `)`, at
\* least one parameter.
parse_parameter_list(P) ==
    IF ~parser_check(P, "(") THEN PErr(P)
    ELSE parse_comma_seq(parser_bump(P), "parse_parameter", <<>>)

\* `out.push(Some(f(self)?))`: the item pushed on the list, or its error.
items_seq_push(out, item) ==
    IF item.ok THEN PResult(TRUE, item.P, Append(out, Some(item.out)))
    ELSE PResult(FALSE, item.P, out)

\* parse_optional_items_seq_required: one iteration of its loop after the
\* close delimiter was not eaten; [ok, P, out].
items_seq_required_iter(P, out, f) ==
    LET P1 == parser_expect(P, ",").P
    IN IF ~parser_expect(P, ",").ok THEN PResult(FALSE, P, out)
       ELSE IF parser_check(P1, ",") \/ parser_check(P1, ")")
       THEN PResult(TRUE, P1, Append(out, None))
       ELSE items_seq_push(out, parse_item(P1, f))

\* parse_optional_items_seq_required(delim, out, f) with the parenthesis as
\* delim.
RECURSIVE parse_optional_items_seq_required(_, _, _)
RECURSIVE items_seq_required_next(_, _)
parse_optional_items_seq_required(P, out, f) ==
    IF parser_eat(P, ")").ate THEN PResult(TRUE, parser_eat(P, ")").P, out)
    ELSE items_seq_required_next(items_seq_required_iter(P, out, f), f)

items_seq_required_next(r, f) ==
    IF r.ok THEN parse_optional_items_seq_required(r.P, r.out, f) ELSE r

\* `while self.eat(&TokenKind::Comma)`: a None for every leading comma.
RECURSIVE eat_leading_commas(_, _)
eat_leading_commas(P, out) ==
    IF parser_eat(P, ",").ate
    THEN eat_leading_commas(parser_eat(P, ",").P, Append(out, None))
    ELSE PResult(TRUE, P, out)

\* parse_optional_items_seq, from the first item on; r is the state after the
\* leading commas.
items_seq_first(r, f) ==
    items_seq_required_next(IF parser_check(r.P, ")") THEN r
                            ELSE items_seq_push(r.out, parse_item(r.P, f)), f)

\* parse_optional_items_seq(delim, f) with the parenthesis as delim.
parse_optional_items_seq(P, f) ==
    IF ~parser_expect(P, "(").ok THEN PResult(FALSE, P, <<>>)
    ELSE items_seq_first(eat_leading_commas(parser_expect(P, "(").P, <<>>), f)

(***************************************************************************)
(* Statements (parser/stmt.rs)                                             *)
(***************************************************************************)
RECURSIVE parse_stmt(_)

\* The `while !self.eat(close)` loop of parse_delim_seq for a block.
RECURSIVE parse_block_stmts(_, _)
parse_block_stmts(P, out) ==
    IF parser_check(P, "}") THEN PResult(TRUE, parser_bump(P), out)
    ELSE IF parser_check(P, "Eof") THEN PErr(P)
    ELSE and_then(parse_stmt(P), LAMBDA s : parse_block_stmts(s.P, Append(out, s.out)))

\* Parser::parse_block: `{` statements `}`.
parse_block(P) ==
    IF ~parser_check(P, "{") THEN PErr(P) ELSE parse_block_stmts(parser_bump(P), <<>>)

\* `(` e `)`, as the if, while and do-while statements have it.
parse_paren_expr(P) ==
    IF ~parser_check(P, "(") THEN PErr(P)
    ELSE and_then(parse_expr(parser_bump(P)), LAMBDA e :
             IF ~parser_check(e.P, ")") THEN PErr(e.P)
             ELSE PResult(TRUE, parser_bump(e.P), e.out))

\* parse_stmt_if, `if self.eat_keyword(kw::Else) { Some(self.parse_stmt()?) }`.
parse_stmt_else(P) ==
    IF parser_check(P, "else") THEN psome(parse_stmt(parser_bump(P)))
    ELSE PResult(TRUE, P, None)

\* A faulty parse_stmt_if that gives the else of a directly nested if to the
\* outer one.
parse_stmt_if_else_to_outer(P) ==
    and_then(parse_paren_expr(P), LAMBDA e :
        and_then(parse_stmt(e.P), LAMBDA true_stmt :
            IF true_stmt.out[1] = "If" /\ true_stmt.out[4].some
            THEN PResult(TRUE, true_stmt.P,
                         <<"If", e.out, [true_stmt.out EXCEPT ![4] = None], true_stmt.out[4]>>)
            ELSE and_then(parse_stmt_else(true_stmt.P), LAMBDA else_stmt :
                     PResult(TRUE, else_stmt.P,
                             <<"If", e.out, true_stmt.out, else_stmt.out>>))))

\* Parser::parse_stmt_if, after the `if`.
parse_stmt_if(P) ==
    and_then(parse_paren_expr(P), LAMBDA e :
        and_then(parse_stmt(e.P), LAMBDA true_stmt :
            and_then(parse_stmt_else(true_stmt.P), LAMBDA else_stmt :
                PResult(TRUE, else_stmt.P,
                        <<"If", e.out, true_stmt.out, else_stmt.out>>))))

\* Parser::parse_stmt_while, after the `while`.
parse_stmt_while(P) ==
    and_then(parse_paren_expr(P), LAMBDA e :
        and_then(parse_stmt(e.P), LAMBDA stmt :
            PResult(TRUE, stmt.P, <<"While", e.out, stmt.out>>)))

\* Parser::parse_stmt_do_while, after the `do`.
parse_stmt_do_while(P) ==
    and_then(parse_block(P), LAMBDA block :
        IF ~parser_check(block.P, "while") THEN PErr(block.P)
        ELSE and_then(parse_paren_expr(parser_bump(block.P)), LAMBDA e :
                 PResult(TRUE, e.P, <<"DoWhile", block.out, e.out>>)))

\* Parser::parse_stmt_try, after the `try`, from the first `catch` on: P is
\* the state after a `catch`, with the clauses gathered so far.
RECURSIVE parse_catch_clauses(_, _)
parse_catch_clauses(P, catch) ==
    LET name == IF is_non_reserved_ident(parser_token(P))
                THEN PResult(TRUE, parser_bump(P), Some(parser_token(P)))
                ELSE PResult(TRUE, P, None)
    IN and_then(IF parser_check(name.P, "(") THEN parse_parameter_list(name.P)
                ELSE PResult(TRUE, name.P, <<>>), LAMBDA args :
           and_then(parse_block(args.P), LAMBDA block :
               LET clause == [name |-> name.out, args |-> args.out, block |-> block.out]
               IN IF parser_check(block.P, "catch")
                  THEN parse_catch_clauses(parser_bump(block.P), Append(catch, clause))
                  ELSE PResult(TRUE, block.P, Append(catch, clause))))

\* parse_stmt_try up to the end of its block: [expr, returns, block].
parse_stmt_try_block(P) ==
    and_then(parse_expr(P), LAMBDA expr :
        and_then(IF parser_check(expr.P, "returns")
                 THEN parse_parameter_list(parser_bump(expr.P))
                 ELSE PResult(TRUE, expr.P, <<>>), LAMBDA returns :
            and_then(parse_block(returns.P), LAMBDA block :
                PResult(TRUE, block.P,
                        [expr |-> expr.out, returns |-> returns.out, block |-> block.out]))))

\* A faulty parse_stmt_try that takes a try block with no `catch` after it.
parse_stmt_try_optional_catch(P) ==
    and_then(parse_stmt_try_block(P), LAMBDA t :
        and_then(IF parser_check(t.P, "catch")
                 THEN parse_catch_clauses(parser_bump(t.P), <<>>)
                 ELSE PResult(TRUE, t.P, <<>>), LAMBDA catch :
            PResult(TRUE, catch.P,
                    <<"Try", t.out.expr, t.out.returns, t.out.block, catch.out>>)))

\* Parser::parse_stmt_try, after the `try`.
parse_stmt_try(P) ==
    and_then(parse_stmt_try_block(P), LAMBDA t :
        IF ~parser_check(t.P, "catch") THEN PErr(t.P)
        ELSE and_then(parse_catch_clauses(parser_bump(t.P), <<>>), LAMBDA catch :
                 PResult(TRUE, catch.P,
                         <<"Try", t.out.expr, t.out.returns, t.out.block, catch.out>>)))

\* Parser::parse_yul_block: `{`, Yul code, `}`; the Yul code of the model is a
\* run of identifiers.
RECURSIVE parse_yul_block(_)
parse_yul_block(P) ==
    IF parser_check(P, "}") THEN PResult(TRUE, parser_bump(P), <<>>)
    ELSE IF is_non_reserved_ident(parser_token(P)) THEN parse_yul_block(parser_bump(P))
    ELSE PErr(P)

\* Parser::parse_stmt_assembly, after the `assembly`: the dialect, the flags
\* and the block.  The token streams of the model have no string literal, so
\* there is no dialect, and a flag list, which may not be empty, fails.
parse_stmt_assembly(P) ==
    IF parser_check(P, "(") THEN PErr(parser_bump(P))
    ELSE IF ~parser_check(P, "{") THEN PErr(P)
    ELSE pmap(parse_yul_block(parser_bump(P)), "Assembly")

\* Parser::parse_path: id (`.` id)*.
RECURSIVE parse_path(_, _)
parse_path(P, path) ==
    IF ~is_non_reserved_ident(parser_token(P)) THEN PErr(P)
    ELSE IF look_ahead(P, 1) = "."
    THEN parse_path(parser_bump(parser_bump(P)), Append(path, parser_token(P)))
    ELSE PResult(TRUE, parser_bump(P), Append(path, parser_token(P)))

\* Parser::parse_path_call: a path and the call arguments.
parse_path_call(P) ==
    and_then(parse_path(P, <<>>), LAMBDA path :
        and_then(parse_call_args(path.P), LAMBDA params :
            PResult(TRUE, params.P, <<path.out, params.out>>)))

\* A faulty peek_statement_type that does not know `payable`.
peek_statement_type_no_payable(P) ==
    LET t == parser_token(P)
        next == look_ahead(P, 1)
    IN IF t \in {"mapping", "function"} THEN "VariableDeclaration"
       ELSE IF is_non_reserved_ident(t) \/ is_elementary_type(t)
       THEN IF is_non_reserved_ident(next) \/ is_location_specifier(next)
            THEN "VariableDeclaration"
            ELSE IF next \in {"[", "."} THEN "IndexAccessStructure"
            ELSE "Expression"
       ELSE "Expression"

\* Parser::peek_statement_type
peek_statement_type(P) ==
    LET t == parser_token(P)
        next == look_ahead(P, 1)
    IN IF t \in {"mapping", "function"} THEN "VariableDeclaration"
       ELSE IF is_non_reserved_ident(t) \/ is_elementary_type(t)
       THEN IF is_elementary_type(t) /\ next = "payable" THEN "VariableDeclaration"
            ELSE IF is_non_reserved_ident(next) \/ is_location_specifier(next)
            THEN "VariableDeclaration"
            ELSE IF next \in {"[", "."} THEN "IndexAccessStructure"
            ELSE "Expression"
       ELSE "Expression"

\* IndexAccessedPath {path, n_idents}
IndexAccessedPath(path, n_idents) == [path |-> path, n_idents |-> n_idents]

\* parse_iap, `while self.eat(&TokenKind::Dot)`: the members after the first.
\* A reserved identifier other than `address` is reported and taken.
RECURSIVE parse_iap_members(_, _)
parse_iap_members(P, path) ==
    LET id == look_ahead(P, 1)
        P1 == IF id # "address" /\ ~is_non_reserved_ident(id)
              THEN parser_emit(parser_bump(P), "expected identifier")
              ELSE parser_bump(P)
    IN IF ~parser_check(P, ".") THEN PResult(TRUE, P, path)
       ELSE IF ~is_ident(id) THEN PErr(parser_bump(P))
       ELSE parse_iap_members(parser_bump(P1), Append(path, <<"Member", id>>))

\* parse_iap, `while self.check(&TokenKind::OpenDelim(Delimiter::Bracket))`.
RECURSIVE parse_iap_indices(_, _, _)
parse_iap_indices(P, path, n_idents) ==
    IF ~parser_check(P, "[") THEN PResult(TRUE, P, IndexAccessedPath(path, n_idents))
    ELSE and_then(parse_expr_index_kind(P), LAMBDA index :
             parse_iap_indices(index.P, Append(path, <<"Index", index.out>>), n_idents))

\* A faulty parse_iap that counts the indices among the leading names.
parse_iap_counts_indices(P) ==
    LET t == parser_token(P)
    IN and_then(IF is_non_reserved_ident(t)
                THEN parse_iap_members(parser_bump(P), <<(<<"Member", t>>)>>)
                ELSE IF is_elementary_type(t)
                THEN PResult(TRUE, parser_bump(P), <<(<<"MemberTy", t>>)>>)
                ELSE PErr(P),
                LAMBDA members :
        and_then(parse_iap_indices(members.P, members.out, Len(members.out)), LAMBDA iap :
            PResult(TRUE, iap.P, IndexAccessedPath(iap.out.path, Len(iap.out.path)))))

\* Parser::parse_iap: the identifiers of the path, or the elementary type,
\* and then the indices; n_idents is the length of the path before them.
parse_iap(P) ==
    LET t == parser_token(P)
    IN and_then(IF is_non_reserved_ident(t)
                THEN parse_iap_members(parser_bump(P), <<(<<"Member", t>>)>>)
                ELSE IF is_elementary_type(t)
                THEN PResult(TRUE, parser_bump(P), <<(<<"MemberTy", t>>)>>)
                ELSE PErr(P),
                LAMBDA members : parse_iap_indices(members.P, members.out, Len(members.out)))

\* A faulty try_parse_iap that takes every index-accessed path for an
\* expression.
try_parse_iap_expression(P) ==
    IF peek_statement_type(P) # "IndexAccessStructure"
    THEN PResult(TRUE, P, [ty |-> peek_statement_type(P),
                           iap |-> IndexAccessedPath(<<>>, 0)])
    ELSE and_then(parse_iap(P), LAMBDA iap :
             PResult(TRUE, iap.P, [ty |-> "Expression", iap |-> iap.out]))

\* Parser::try_parse_iap: [ty, iap].
try_parse_iap(P) ==
    IF peek_statement_type(P) # "IndexAccessStructure"
    THEN PResult(TRUE, P, [ty |-> peek_statement_type(P),
                           iap |-> IndexAccessedPath(<<>>, 0)])
    ELSE and_then(parse_iap(P), LAMBDA iap :
             PResult(TRUE, iap.P,
                     [ty |-> IF is_non_reserved_ident(parser_token(iap.P))
                                \/ is_location_specifier(parser_token(iap.P))
                             THEN "VariableDeclaration" ELSE "Expression",
                      iap |-> iap.out]))

\* A faulty size that prefers the upper bound of a range.
range_size_upper(l, r) == IF r.some THEN r ELSE l

\* into_ty, `l.or(r)`: the size a range index gives.
range_size(l, r) == IF l.some THEN l ELSE r

\* into_ty, `for index in self.path.into_iter().skip(self.n_idents)`; st is
\* [P, ty].
RECURSIVE into_ty_indices(_, _, _)
into_ty_indices(path, k, st) ==
    LET kind == path[k][2]
        size == IF kind[1] = "Index" THEN kind[2] ELSE range_size(kind[2], kind[3])
        P1 == IF kind[1] = "Index" THEN st.P
              ELSE parser_emit(st.P, "expected array length, got range expression")
    IN IF k > Len(path) THEN st
       ELSE into_ty_indices(path, k + 1, [P |-> P1, ty |-> <<"Array", st.ty, size>>])

\* IndexAccessedPath::into_ty: [P, ty], ty the Option<Ty>.
into_ty(iap, P) ==
    LET first_ty == IF iap.path[1][1] = "MemberTy"
                    THEN <<"Elementary", iap.path[1][2]>>
                    ELSE <<"Custom", [k \in 1 .. iap.n_idents |-> iap.path[k][2]]>>
        st == into_ty_indices(iap.path, iap.n_idents + 1, [P |-> P, ty |-> first_ty])
    IN IF iap.path = <<>> THEN [P |-> P, ty |-> None]
       ELSE [P |-> st.P, ty |-> Some(st.ty)]

\* into_expr, `for index in path`.
RECURSIVE into_expr_rest(_, _, _)
into_expr_rest(path, k, expr) ==
    IF k > Len(path) THEN expr
    ELSE IF path[k][1] = "Member"
    THEN into_expr_rest(path, k + 1, <<"Member", expr, path[k][2]>>)
    ELSE into_expr_rest(path, k + 1, <<"Index", expr, path[k][2]>>)

\* IndexAccessedPath::into_expr: the Option<Expr>.
into_expr(iap) ==
    IF iap.path = <<>> THEN None
    ELSE IF iap.path[1][1] = "Member"
    THEN Some(into_expr_rest(iap.path, 2, <<"Ident", iap.path[1][2]>>))
    ELSE Some(into_expr_rest(iap.path, 2, <<"Type", <<"Elementary", iap.path[1][2]>>>>))

\* into_ty, the panics: `unreachable!` on a leading entry that is not a
\* Member (the first n_idents entries are looked at, when the first one is not
\* a MemberTy), `parsed too much` on a later entry that is not an Index, and
\* the two debug assertions on n_idents.
into_ty_panics(iap) ==
    /\ iap.path # <<>>
    /\ \/ iap.path[1][1] = "MemberTy" /\ iap.n_idents # 1
       \/ iap.path[1][1] # "MemberTy" /\ iap.n_idents < 1
       \/ /\ iap.path[1][1] # "MemberTy"
          /\ \E k \in 1 .. iap.n_idents : k <= Len(iap.path) /\ iap.path[k][1] # "Member"
       \/ \E k \in iap.n_idents + 1 .. Len(iap.path) : iap.path[k][1] # "Index"

\* into_expr, the panics: `should not happen` on a first entry that is an
\* Index and on a later entry that is a MemberTy.
into_expr_panics(iap) ==
    /\ iap.path # <<>>
    /\ \/ iap.path[1][1] = "Index"
       \/ \E k \in 2 .. Len(iap.path) : iap.path[k][1] = "MemberTy"

\* `while self.eat(&TokenKind::Comma) { empty_components += 1 }`: [P, n].
RECURSIVE eat_empty_components(_, _)
eat_empty_components(P, n) ==
    IF parser_check(P, ",") THEN eat_empty_components(parser_bump(P), n + 1)
    ELSE [P |-> P, n |-> n]

\* A faulty start of the component list that forgets the empty components.
vec_none_forgotten(n) == <<>>

\* vec![None; empty_components]
vec_none(n) == [k \in 1 .. n |-> None]

\* parse_simple_stmt_kind after the `(`, the leading commas (n of them) and
\* the first variable v: the other variables, the `=` and the expression.
parse_decl_multi(n, v) ==
    and_then(perr(parse_optional_items_seq_required(
                      v.P, Append(vec_none(n), Some(v.out)), "parse_variable_definition")),
             LAMBDA variables :
        IF ~parser_check(variables.P, "=") THEN PErr(variables.P)
        ELSE and_then(parse_expr(parser_bump(variables.P)), LAMBDA expr :
                 PResult(TRUE, expr.P, <<"DeclMulti", variables.out, expr.out>>)))

\* The same after the first expression e: the other components, and the
\* expression that goes on from the tuple.
parse_expr_tuple(n, e) ==
    and_then(perr(parse_optional_items_seq_required(
                      e.P, Append(vec_none(n), Some(e.out)), "parse_expr")),
             LAMBDA components :
        parse_expr_with(components.P, Some(<<"Tuple", components.out>>)))

\* parse_simple_stmt_kind, a declaration: t is what try_parse_iap gave, and
\* the statement begins with `(` and n leading commas if paren.
parse_simple_stmt_decl(paren, n, t) ==
    LET ty == into_ty(t.out.iap, t.P)
    IN and_then(parse_variable_definition_with(
                    ty.P, IF paren THEN "FUNCTION" ELSE "VAR", ty.ty), LAMBDA v :
           IF paren THEN parse_decl_multi(n, v) ELSE pmap(v, "DeclSingle"))

\* The same, an expression.
parse_simple_stmt_expr(paren, n, t) ==
    pmap(and_then(parse_expr_with(t.P, into_expr(t.out.iap)), LAMBDA e :
             IF paren THEN parse_expr_tuple(n, e) ELSE e), "Expr")

\* Parser::parse_simple_stmt_kind
parse_simple_stmt_kind(P) ==
    LET paren == parser_check(P, "(")
        c == IF paren THEN eat_empty_components(parser_bump(P), 0) ELSE [P |-> P, n |-> 0]
    IN and_then(try_parse_iap(c.P), LAMBDA t :
           IF t.out.ty = "VariableDeclaration" THEN parse_simple_stmt_decl(paren, c.n, t)
           ELSE parse_simple_stmt_expr(paren, c.n, t))

\* parse_stmt_for, the initializer: none, or a simple statement.
parse_stmt_for_init(P) ==
    IF parser_check(P, ";") THEN PResult(TRUE, P, None)
    ELSE psome(parse_simple_stmt_kind(P))

\* The token `t` after the production r, an error if it is not there.
expect_after(r, t) ==
    IF ~r.ok THEN r
    ELSE IF parser_check(r.P, t) THEN [r EXCEPT !.P = parser_bump(@)]
    ELSE PErr(r.P)

\* parse_stmt_for, the condition and the increment: none before `stop`, or an
\* expression, and then the `stop`.
parse_stmt_for_expr(P, stop) == expect_after(parse_expr_unless(P, {stop}), stop)

\* Parser::parse_stmt_for, after the `for`.
parse_stmt_for(P) ==
    IF ~parser_check(P, "(") THEN PErr(P)
    ELSE and_then(expect_after(parse_stmt_for_init(parser_bump(P)), ";"), LAMBDA init :
             and_then(parse_stmt_for_expr(init.P, ";"), LAMBDA cond :
                 and_then(parse_stmt_for_expr(cond.P, ")"), LAMBDA next :
                     and_then(parse_stmt(next.P), LAMBDA body :
                         PResult(TRUE, body.P,
                                 <<"For", init.out, cond.out, next.out, body.out>>)))))

\* A faulty test that takes every leading `revert` for a revert statement.
is_revert_stmt_always(P) == parser_check(P, "revert")

\* parse_stmt_kind: `self.check_keyword(kw::Revert) && self.look_ahead(1).is_ident()`
is_revert_stmt(P) == parser_check(P, "revert") /\ is_ident(look_ahead(P, 1))

\* parse_stmt_kind, `return`: the expression unless the `;` follows.
parse_stmt_return(P) ==
    IF parser_check(P, ";") THEN PResult(TRUE, P, <<"Return", None>>)
    ELSE pmap(psome(parse_expr(P)), "Return")

\* parse_stmt_kind, the choice of the production on the leading token:
\* [semi, kind], kind the result of the production.
parse_stmt_kind_dispatch(P) ==
    LET t == parser_token(P)
        P1 == parser_bump(P)
        prod(semi, kind) == [semi |-> semi, kind |-> kind]
    IN CASE t = "if" -> prod(FALSE, parse_stmt_if(P1))
         [] t = "while" -> prod(FALSE, parse_stmt_while(P1))
         [] t = "do" -> prod(TRUE, parse_stmt_do_while(P1))
         [] t = "for" -> prod(FALSE, parse_stmt_for(P1))
         [] t \in {"unchecked", "{"} ->
              prod(FALSE, pmap(parse_block(IF t = "{" THEN P ELSE P1),
                               IF t = "{" THEN "Block" ELSE "UncheckedBlock"))
         [] t = "continue" -> prod(TRUE, PResult(TRUE, P1, <<"Continue">>))
         [] t = "break" -> prod(TRUE, PResult(TRUE, P1, <<"Break">>))
         [] t = "return" -> prod(TRUE, parse_stmt_return(P1))
         [] t = "throw" -> prod(TRUE, PErr(P1))
         [] t = "try" -> prod(FALSE, parse_stmt_try(P1))
         [] t = "assembly" -> prod(FALSE, parse_stmt_assembly(P1))
         [] t = "emit" \/ (t = "revert" /\ is_revert_stmt(P)) ->
              prod(TRUE, pmap(parse_path_call(P1), IF t = "emit" THEN "Emit" ELSE "Revert"))
         [] OTHER -> prod(TRUE, parse_simple_stmt_kind(P))

\* parse_stmt_kind, `if semi && kind.is_ok() { self.expect_semi()?; } kind`.
expect_semi_after(d) ==
    IF d.semi /\ d.kind.ok
    THEN IF parser_check(d.kind.P, ";")
         THEN PResult(TRUE, parser_bump(d.kind.P), d.kind.out)
         ELSE PErr(d.kind.P)
    ELSE d.kind

\* A faulty end of parse_stmt_kind that expects the `;` after every
\* production.
parse_stmt_kind_always_semi(P) ==
    expect_semi_after([parse_stmt_kind_dispatch(P) EXCEPT !.semi = TRUE])

\* Parser::parse_stmt_kind
parse_stmt_kind(P) == expect_semi_after(parse_stmt_kind_dispatch(P))

\* Parser::parse_stmt: no doc comments in the token streams of the model.
parse_stmt(P) == parse_stmt_kind(P)

LexerIdle ==
    /\ lexer = "idle" /\ diags = <<>> /\ returned = <<>> /\ bumps = <<>>
    /\ callBumps = <<>> /\ lexStatus = "idle"

\* A parser on a token stream, as Parser::from_source_code leaves it.
InitParser ==
    /\ SemaIdle
    /\ LexerIdle
    /\ parser \in [toks : SeqsUpTo(ParserToks, MaxToks), i : {0}]
    /\ pout = <<>>
    /\ pstatus = "ready"

\* One call of parse_optional_items_seq(Delimiter::Parenthesis, parse_ident).
ParseItems(r) ==
    /\ parser' = r.P
    /\ pout' = IF r.ok THEN r.out ELSE <<>>
    /\ pstatus' = IF r.ok THEN "ok" ELSE "err"

ParseOptionalItemsSeq ==
    /\ pstatus = "ready"
    /\ ParseItems(parse_optional_items_seq(parser, "parse_ident"))
    /\ UNCHANGED <<semaVars, lexVars>>

NextParser == ParseOptionalItemsSeq

SpecParser == InitParser /\ [][NextParser]_vars

(***************************************************************************)
(* Properties of the parser                                                *)
(***************************************************************************)
\* The slots of a comma-joined list s of identifier-or-empty slots, the slot
\* being built in `slot`: a comma ends a slot.
RECURSIVE SlotsOf(_, _, _)
SlotsOf(s, k, slot) ==
    IF k > Len(s) THEN <<slot>>
    ELSE IF s[k] = "," THEN <<slot>> \o SlotsOf(s, k + 1, None)
    ELSE SlotsOf(s, k + 1, Some(s[k]))

\* The list the optional-items rule gives for `(s)`: no slot when s is empty.
ExpectedSlots(s) == IF s = <<>> THEN <<>> ELSE SlotsOf(s, 1, None)

\* The tokens are `(s)` with s a comma-joined list of identifier-or-empty slots.
IsItemsList(toks) ==
    /\ Len(toks) >= 2
    /\ toks[1] = "("
    /\ toks[Len(toks)] = ")"
    /\ \A k \in 2 .. (Len(toks) - 1) :
          /\ toks[k] \in Idents \cup {","}
          /\ (toks[k] \in Idents /\ k > 2) => toks[k - 1] = ","

\* C2 as stated: for every input `(s)`, s a comma-joined list of
\* identifier-or-empty slots, parse_optional_items_seq returns (number of
\* commas + 1) slots (none when s is empty), None at every omitted slot and
\* Some at every present one, in source order; also for `(,)` and `(,,)`.
C2_SlotsAreCommasPlusOne ==
    (pstatus # "ready" /\ IsItemsList(parser.toks)) =>
        /\ pstatus = "ok"
        /\ pout = ExpectedSlots(SubSeq(parser.toks, 2, Len(parser.toks) - 1))

(***************************************************************************)
(* Statements: parse_stmt_kind and peek_statement_type on token streams.   *)
(***************************************************************************)
\* Longest token stream of the exhaustive inputs.
MaxStmtToks == 3

\* Most catch clauses, most indices of a path and most commas on either
\* side of the first component in the inputs built.
MaxCatches == 2
MaxIndices == 2
MaxCommas == 3

SimpleToks == {"x", "uint256", "[", "]", ".", "memory", "(", ")", ",", "=", "3", ":", ";"}

AllToks ==
    Keywords \cup LocationSpecifiers \cup ElementaryTypes \cup NonReserved \cup Literals
        \cup {"(", ")", "[", "]", "{", "}", ",", ".", ";", ":", "=", "Eof"}

\* The sequences of at most n elements of S, joined.
RECURSIVE Joined(_, _)
Joined(S, n) ==
    IF n = 0 THEN {<<>>} ELSE {<<>>} \cup {s \o r : s \in S, r \in Joined(S, n - 1)}

\* What follows a statement in the inputs.
StmtTails == {<<>>, <<";">>, <<";", ";">>, <<"x">>, <<"}">>}

\* One statement of every production, and statements that fail.
StmtHeads ==
    {<<"if", "(", "x", ")", "{", "}">>,
     <<"if", "(", "x", ")", "x", ";", "else", "{", "}">>,
     <<"if", "(", "x", ")", "break", ";">>,
     <<"if", "(", "x", ")", "if", "(", "y", ")", "x", ";", "else", "break", ";">>,
     <<"if", "(", "x", ")", "if", "(", "y", ")", "x", ";", "else", "break", ";",
       "else", "continue", ";">>,
     <<"if", "(", "x", ")", "{", "if", "(", "y", ")", "x", ";", "}", "else", "break", ";">>,
     <<"if", "(", "x", "{", "}">>,
     <<"while", "(", "x", ")", "{", "}">>,
     <<"while", "(", "x", ")", "continue", ";">>,
     <<"while", "x">>,
     <<"do", "{", "}", "while", "(", "x", ")">>,
     <<"do", "{", "x", ";", "}", "while", "(", "x", ")">>,
     <<"do", "{", "}", "(", "x", ")">>,
     <<"for", "(", ";", ";", ")", "{", "}">>,
     <<"for", "(", "uint256", "x", "=", "3", ";", "x", ";", "x", ")", "{", "}">>,
     <<"for", "(", "x", ";", ";", ")", "x", ";">>,
     <<"for", "(", ";", ")", "{", "}">>,
     <<"unchecked", "{", "}">>,
     <<"unchecked", "{", "x", ";", "}">>,
     <<"unchecked", "x">>,
     <<"{", "}">>,
     <<"{", "x", ";", "break", ";", "}">>,
     <<"{", "x", "}">>,
     <<"{", "throw", ";", "}">>,
     <<"continue">>,
     <<"break">>,
     <<"return">>,
     <<"return", "x">>,
     <<"return", "x", "(", "3", ")">>,
     <<"return", ")">>,
     <<"throw">>,
     <<"try", "x", "{", "}", "catch", "{", "}">>,
     <<"try", "x", "{", "}">>,
     <<"assembly", "{", "}">>,
     <<"assembly", "{", "x", "y", "}">>,
     <<"assembly", "(", ")", "{", "}">>,
     <<"emit", "x", "(", ")">>,
     <<"emit", "x", ".", "y", "(", "3", ",", "x", ")">>,
     <<"emit", "(", ")">>,
     <<"revert", "x", "(", ")">>,
     <<"revert", "x", ".", "y", "(", "3", ")">>,
     <<"revert", "x">>,
     <<"revert", "(", ")">>,
     <<"revert", "(", "x", ")">>,
     <<"revert">>,
     <<"x">>,
     <<"x", "=", "3">>,
     <<"x", "(", "3", ")">>,
     <<"uint256", "x">>,
     <<"uint256", "x", "=", "3">>,
     <<"uint256", "[", "]", "memory", "x", "=", "y">>,
     <<"uint256", "[", "3", "]", "(", "x", ")">>,
     <<"(", "x", ",", "y", ")", "=", "x">>,
     <<"(", "uint256", "x", ",", ")", "=", "y">>,
     <<"uint256">> ,
     <<"x", "y", "y">>}

\* The heads of the try statements of the inputs: up to the end of the try
\* block.
TryHeads ==
    {<<"try", "x", "{", "}">>, <<"try", "x", "(", ")", "{", "}">>,
     <<"try", "x", "returns", "(", "uint256", "y", ")", "{", "x", ";", "}">>}

\* Try statements: a head, catch clauses, and something after them.
CatchClauses ==
    {<<"catch", "{", "}">>, <<"catch", "x", "{", "}">>,
     <<"catch", "x", "(", "uint256", "y", ")", "{", "}">>,
     <<"catch", "(", "uint256", ")", "{", "x", ";", "}">>}

TryInputs ==
    {head \o clauses \o tail :
        head \in TryHeads,
        clauses \in Joined(CatchClauses, MaxCatches),
        tail \in {<<>>, <<";">>, <<"x", ";">>, <<"{", "}">>, <<"catch">>, <<"else", "{", "}">>}}

\* `revert` before every token, as a call and not.
RevertInputs ==
    {<<"revert", t>> \o rest :
        t \in AllToks \ {"Eof"},
        rest \in {<<>>, <<"(", ")", ";">>, <<"x", ")", ";">>, <<")", ";">>, <<";">>}}

\* Index-accessed paths: a path, indices, and what follows them.
IapIndices ==
    {<<"[", "]">>, <<"[", "3", "]">>, <<"[", "x", "]">>, <<"[", "3", ":", "]">>,
     <<"[", ":", "x", "]">>, <<"[", "3", ":", "x", "]">>, <<"[", ":", "]">>}

IapInputs ==
    {head \o indices \o tail :
        head \in {<<"uint256">>, <<"x">>, <<"x", ".", "y">>, <<"x", ".", "address">>,
                  <<"x", ".", "if">>},
        indices \in Joined(IapIndices, MaxIndices),
        tail \in {<<"memory", "x", "=", "y", ";">>, <<"y", ";">>, <<"y", "=", "3", ";">>,
                  <<"(", "x", ")", ";">>, <<";">>, <<"=", "y", ";">>, <<".", "y", ";">>,
                  <<"uint256", ";">>}}

\* Parenthesised simple statements: commas, a first component, components and
\* commas, the `)`, and what follows it.
TupleInputs ==
    {<<"(">> \o leading \o comp \o rest \o <<")">> \o tail :
        leading \in Joined({<<",">>}, MaxCommas),
        comp \in {<<"x">>, <<"uint256", "x">>, <<"x", "[", "3", "]">>,
                   <<"x", "[", "3", "]", "memory", "y">>, <<>>},
        rest \in Joined({<<",">>, <<",", "y">>, <<",", "uint256", "y">>}, MaxCommas),
        tail \in {<<"=", "x", ";">>, <<";">>, <<"=", "x", "(", ")", ";">>}}

StmtInputs ==
    SeqsUpTo(SimpleToks, MaxStmtToks) \cup SeqsUpTo(AllToks \ {"Eof"}, 2)
        \cup {head \o tail : head \in StmtHeads, tail \in StmtTails}
        \cup TryInputs \cup RevertInputs \cup IapInputs \cup TupleInputs

\* A parser on a token stream, no error emitted yet.
InitStmt ==
    /\ SemaIdle
    /\ LexerIdle
    /\ parser \in [toks : StmtInputs, i : {0}, errs : {<<>>}]
    /\ pout = <<>>
    /\ pstatus = "ready"

\* The types of the model are the elementary and the custom ones.
InGrammar(toks) == \A k \in 1 .. Len(toks) : toks[k] \notin {"mapping", "function"}

\* One call of parse_stmt_kind.
ParseStmtKind ==
    /\ pstatus = "ready"
    /\ InGrammar(parser.toks)
    /\ ParseItems(parse_stmt_kind(parser))
    /\ UNCHANGED <<semaVars, lexVars>>

\* One call of peek_statement_type.
PeekStatementType ==
    /\ pstatus = "ready"
    /\ parser' = parser
    /\ pout' = <<peek_statement_type(parser)>>
    /\ pstatus' = "peeked"
    /\ UNCHANGED <<semaVars, lexVars>>

NextStmt == ParseStmtKind \/ PeekStatementType

SpecStmt == InitStmt /\ [][NextStmt]_vars

\* The parser before the call.
Parser0 == [parser EXCEPT !.i = 0, !.errs = <<>>]

\* parse_stmt_kind has returned.
Parsed == pstatus \in {"ok", "err"}

\* The k-th token of the input, from 1; Eof past its end.
TokAt(k) == IF k <= Len(parser.toks) THEN parser.toks[k] ELSE "Eof"

\* The production the leading token selects, as it ended.
Production == parse_stmt_kind_dispatch(Parser0).kind

\* The statement kinds by the table of the productions.
SemiKinds ==
    {"DoWhile", "Continue", "Break", "Return", "Emit", "Revert", "DeclSingle", "DeclMulti",
     "Expr"}
NoSemiKinds == {"If", "While", "For", "UncheckedBlock", "Block", "Try", "Assembly"}

\* The kinds the leading token can give.
KindsByLeading(t) ==
    CASE t = "if" -> {"If"}
      [] t = "while" -> {"While"}
      [] t = "do" -> {"DoWhile"}
      [] t = "for" -> {"For"}
      [] t = "unchecked" -> {"UncheckedBlock"}
      [] t = "{" -> {"Block"}
      [] t = "continue" -> {"Continue"}
      [] t = "break" -> {"Break"}
      [] t = "return" -> {"Return"}
      [] t = "throw" -> {}
      [] t = "try" -> {"Try"}
      [] t = "assembly" -> {"Assembly"}
      [] t = "emit" -> {"Emit"}
      [] t = "revert" -> {"Revert", "Expr", "DeclSingle"}
      [] OTHER -> {"DeclSingle", "DeclMulti", "Expr"}

\* C23: parse_stmt_kind requires and consumes a trailing `;` exactly after
\* the productions do-while, continue, break, return, emit, revert and simple
\* statement, and consumes none after if, while, for, unchecked block, block,
\* try and assembly.  When the production fails (`throw` always does, and
\* gives no statement), the error is returned and no `;` is consumed.
C23_TrailingSemi ==
    Parsed =>
        /\ Production.ok => Production.out[1] \in KindsByLeading(TokAt(1))
        /\ (Production.ok /\ Production.out[1] \in SemiKinds) =>
              IF TokAt(Production.P.i + 1) = ";"
              THEN /\ pstatus = "ok"
                   /\ pout = Production.out
                   /\ parser.i = Production.P.i + 1
              ELSE /\ pstatus = "err"
                   /\ parser.i = Production.P.i
        /\ (Production.ok /\ Production.out[1] \in NoSemiKinds) =>
              /\ pstatus = "ok"
              /\ pout = Production.out
              /\ parser.i = Production.P.i
        /\ ~Production.ok =>
              /\ pstatus = "err"
              /\ parser.i = Production.P.i
        /\ TokAt(1) = "throw" => (pstatus = "err" /\ pout = <<>> /\ parser.i = 1)

\* `do {} while (x);;` was parsed: one `;` consumed, the other left.
C23_Witness ==
    /\ parser.toks = <<"do", "{", "}", "while", "(", "x", ")", ";", ";">>
    /\ pstatus = "ok"
    /\ pout[1] = "DoWhile"
    /\ parser.i = 8

HasPrefix(s, p) == Len(s) >= Len(p) /\ SubSeq(s, 1, Len(p)) = p

\* The positions, from 1, of the `catch` tokens consumed.
CatchesConsumed == {k \in 1 .. parser.i : parser.toks[k] = "catch"}

\* C24: a parsed try statement has at least one catch clause.  parse_stmt_try
\* fails when the token after the try block is not `catch`; otherwise it
\* gathers one clause per consecutive `catch`, in source order, and stops at
\* the first token that is not `catch`.
C24_AtLeastOneCatch ==
    (Parsed /\ TokAt(1) = "try") =>
        /\ pstatus = "ok" =>
              /\ pout[1] = "Try"
              /\ Len(pout[5]) >= 1
              /\ Len(pout[5]) = Cardinality(CatchesConsumed)
              /\ TokAt(parser.i + 1) # "catch"
              /\ \A k \in CatchesConsumed :
                    LET n == Cardinality({j \in CatchesConsumed : j <= k})
                    IN IF is_non_reserved_ident(TokAt(k + 1))
                       THEN pout[5][n].name = Some(TokAt(k + 1))
                       ELSE ~pout[5][n].name.some
        /\ \A head \in TryHeads :
              (HasPrefix(parser.toks, head) /\ TokAt(Len(head) + 1) # "catch") =>
                  (pstatus = "err" /\ parser.i = Len(head))

\* A try statement with two clauses was parsed, up to the token after them.
C24_Witness ==
    /\ parser.toks = <<"try", "x", "{", "}", "catch", "{", "}", "catch", "x", "{", "}",
                       "x", ";">>
    /\ pstatus = "ok"
    /\ Len(pout[5]) = 2
    /\ parser.i = 11

\* What parse_stmt_kind makes of the production result r that wants a `;`.
WithSemi(r) ==
    IF ~r.ok THEN [ok |-> FALSE, i |-> r.P.i, out |-> <<>>]
    ELSE IF TokAt(r.P.i + 1) = ";" THEN [ok |-> TRUE, i |-> r.P.i + 1, out |-> r.out]
    ELSE [ok |-> FALSE, i |-> r.P.i, out |-> <<>>]

\* What parse_stmt_kind gave.
Outcome == [ok |-> pstatus = "ok", i |-> parser.i, out |-> pout]

\* C25: a leading `revert` starts a revert statement iff the token after it
\* is an identifier; if it is not, the dispatch does not consume `revert`
\* and the statement is parsed as a simple statement.
C25_RevertNeedsIdent ==
    (Parsed /\ TokAt(1) = "revert") =>
        IF is_ident(TokAt(2))
        THEN /\ Outcome = WithSemi(pmap(parse_path_call(parser_bump(Parser0)), "Revert"))
             /\ parser.i >= 1
             /\ pstatus = "ok" => pout[1] = "Revert"
        ELSE /\ Outcome = WithSemi(parse_simple_stmt_kind(Parser0))
             /\ pstatus = "ok" => (pout[1] = "Expr" /\ pout[2][1] # "Revert")

\* `revert(x);` was parsed: a call of `revert`, an expression statement.
C25_Witness ==
    /\ parser.toks = <<"revert", "(", "x", ")", ";">>
    /\ pstatus = "ok"
    /\ pout = <<"Expr", <<"Call", <<"Ident", "revert">>, <<(<<"Ident", "x">>)>>>>>>

\* The current token starts a type or a path.
StartsPath(t) == t \in NonReserved \cup ElementaryTypes

\* C26: peek_statement_type consumes nothing and classifies from the current
\* and the next token only.  `mapping` and `function` give a declaration; a
\* non-reserved identifier or an elementary type gives a declaration when the
\* next token is a non-reserved identifier or a storage location, or when an
\* elementary type is followed by `payable`, and an index-access structure
\* when the next token is `[` or `.`; everything else is an expression.
C26_PeekStatementType ==
    pstatus = "peeked" =>
        /\ parser = Parser0
        /\ pout[1] =
              CASE TokAt(1) \in {"mapping", "function"} -> "VariableDeclaration"
                [] StartsPath(TokAt(1)) /\ TokAt(2) \in NonReserved \cup LocationSpecifiers ->
                     "VariableDeclaration"
                [] TokAt(1) \in ElementaryTypes /\ TokAt(2) = "payable" -> "VariableDeclaration"
                [] StartsPath(TokAt(1)) /\ TokAt(2) \in {"[", "."} -> "IndexAccessStructure"
                [] OTHER -> "Expression"

\* `address payable` was classified.
C26_Witness ==
    /\ pstatus = "peeked"
    /\ parser.toks = <<"address", "payable">>
    /\ pout = <<"VariableDeclaration">>

\* The index-accessed path the statement begins with.
Iap == parse_iap(Parser0)

\* The statement is not parenthesised and begins with an index-accessed path,
\* which was parsed.
BeginsWithIap ==
    /\ Parsed
    /\ StartsPath(TokAt(1))
    /\ TokAt(2) \in {"[", "."}
    /\ Iap.ok

\* The token after the path makes it a type.
FollowedByName == TokAt(Iap.P.i + 1) \in NonReserved \cup LocationSpecifiers

\* The entries k .. n of the path are indices, and none is a range.
NoRange(path) == \A k \in 1 .. Len(path) : path[k][1] = "Index" => path[k][2][1] = "Index"

\* The size an index gives: the expression of `[e]` and none for `[]`; for a
\* range its lower bound if it has one, else its upper bound, else none.
SizeOf(kind) ==
    IF kind[1] = "Index" THEN kind[2]
    ELSE IF kind[2].some THEN kind[2]
    ELSE kind[3]

\* The type of the first n entries of a path with n_idents leading names:
\* the last index wraps the type of the entries before it.
RECURSIVE TypeOfPath(_, _, _)
TypeOfPath(path, n_idents, n) ==
    IF n > n_idents
    THEN <<"Array", TypeOfPath(path, n_idents, n - 1), SizeOf(path[n][2])>>
    ELSE IF path[1][1] = "MemberTy" THEN <<"Elementary", path[1][2]>>
    ELSE <<"Custom", [k \in 1 .. n_idents |-> path[k][2]]>>

IapType == TypeOfPath(Iap.out.path, Iap.out.n_idents, Len(Iap.out.path))

\* C27: after an index-accessed path the statement is a variable declaration
\* iff the current token is a non-reserved identifier or a storage location,
\* and an expression otherwise.  `uint256[] memory x = y` is a DeclSingle of
\* type Array(uint256, no size), name x, initializer y; `uint256[3](x)` is an
\* expression statement; the indices wrap the type from left to right.
C27_DeclIffNameFollows ==
    /\ (BeginsWithIap /\ pstatus = "ok") =>
          IF FollowedByName
          THEN /\ pout[1] = "DeclSingle"
               /\ NoRange(Iap.out.path) => pout[2].ty = IapType
          ELSE pout[1] = "Expr"
    /\ (BeginsWithIap /\ FollowedByName /\ pstatus = "err") =>
          parser.i >= Iap.P.i
    /\ (Parsed /\ parser.toks = <<"uint256", "[", "]", "memory", "x", "=", "y", ";">>) =>
          /\ pstatus = "ok"
          /\ pout[1] = "DeclSingle"
          /\ pout[2].ty[1] = "Array"
          /\ pout[2].ty[2] = <<"Elementary", "uint256">>
          /\ ~pout[2].ty[3].some
          /\ pout[2].name = Some("x")
          /\ pout[2].init = Some(<<"Ident", "y">>)
    /\ (Parsed /\ parser.toks = <<"uint256", "[", "3", "]", "(", "x", ")", ";">>) =>
          /\ pstatus = "ok"
          /\ pout[1] = "Expr"
    /\ (Parsed /\ parser.toks = <<"x", "[", "3", "]", "[", "x", "]", "y", ";">>) =>
          /\ pstatus = "ok"
          /\ pout[2].ty = <<"Array", <<"Array", <<"Custom", <<"x">>>>, Some(<<"Lit", "3">>)>>,
                            Some(<<"Ident", "x">>)>>

\* `uint256[] memory x = y;` was parsed as a declaration.
C27_Witness ==
    /\ parser.toks = <<"uint256", "[", "]", "memory", "x", "=", "y", ";">>
    /\ pstatus = "ok"
    /\ pout[1] = "DeclSingle"

RangeMsg == "expected array length, got range expression"

\* C28: when an index-accessed path becomes a type, every range among its
\* indices gets one `expected array length, got range expression` error, and
\* the type is built all the same, with the lower bound of the range as the
\* size if there is one, else the upper bound, else none; the declaration is
\* parsed on.
C28_RangeIndexInType ==
    (BeginsWithIap /\ FollowedByName) =>
        /\ Cardinality({k \in 1 .. Len(parser.errs) : parser.errs[k] = RangeMsg})
              = Cardinality({k \in 1 .. Len(Iap.out.path) :
                                /\ Iap.out.path[k][1] = "Index"
                                /\ Iap.out.path[k][2][1] = "Range"})
        /\ pstatus = "ok" => (pout[1] = "DeclSingle" /\ pout[2].ty = IapType)
        /\ (TokAt(Iap.P.i + 1) \in NonReserved /\ TokAt(Iap.P.i + 2) = ";") => pstatus = "ok"

\* `x[3:x] y;` was parsed: one error, and the size is the lower bound.
C28_Witness ==
    /\ parser.toks = <<"x", "[", "3", ":", "x", "]", "y", ";">>
    /\ pstatus = "ok"
    /\ parser.errs = <<RangeMsg>>
    /\ pout[2].ty = <<"Array", <<"Custom", <<"x">>>>, Some(<<"Lit", "3">>)>>

\* The slots of a component list whose `(` is the first token: st is [pat,
\* full, depth], pat the slots closed so far (TRUE for a component, FALSE for
\* an empty slot), full whether the open slot has a token, depth the nesting
\* of brackets and parentheses; k is the next token.
RECURSIVE SlotPattern(_, _)
SlotPattern(k, st) ==
    LET t == TokAt(k)
    IN IF t = "Eof" \/ (t = ")" /\ st.depth = 0) THEN Append(st.pat, st.full)
       ELSE IF t = "," /\ st.depth = 0
       THEN SlotPattern(k + 1, [st EXCEPT !.pat = Append(@, st.full), !.full = FALSE])
       ELSE SlotPattern(k + 1,
                [st EXCEPT !.full = TRUE,
                           !.depth = @ + (IF t \in {"(", "["} THEN 1
                                          ELSE IF t \in {")", "]"} THEN -1 ELSE 0)])

\* The tuple an expression was built on.
RECURSIVE TupleOf(_)
TupleOf(e) == IF e[1] = "Tuple" THEN e[2] ELSE TupleOf(e[2])

\* The component list of the parenthesised statement parsed.
Components == IF pout[1] = "DeclMulti" THEN pout[2] ELSE TupleOf(pout[2])

\* The commas before the first component.
LeadingCommas ==
    Cardinality({k \in 2 .. Len(parser.toks) : \A j \in 2 .. k : parser.toks[j] = ","})

\* C29: the component list of a parenthesised simple statement, DeclMulti
\* variables or Tuple expression, starts with as many None as there are
\* commas before the first component, then has the first component, and one
\* slot more for every later comma, None when the slot is empty: empty slots
\* and trailing commas are kept, in the declaration and in the expression.
C29_ComponentSlots ==
    (Parsed /\ pstatus = "ok" /\ TokAt(1) = "(") =>
        /\ Len(Components) > LeadingCommas
        /\ \A k \in 1 .. LeadingCommas : ~Components[k].some
        /\ Components[LeadingCommas + 1].some
        /\ Len(Components) = Len(SlotPattern(2, [pat |-> <<>>, full |-> FALSE, depth |-> 0]))
        /\ \A k \in 1 .. Len(Components) :
              Components[k].some
                  = SlotPattern(2, [pat |-> <<>>, full |-> FALSE, depth |-> 0])[k]

\* `(, uint256 x, , uint256 y,) = x;` was parsed into five slots.
C29_Witness ==
    /\ parser.toks = <<"(", ",", "uint256", "x", ",", ",", "uint256", "y", ",", ")",
                       "=", "x", ";">>
    /\ pstatus = "ok"
    /\ pout[1] = "DeclMulti"
    /\ Len(pout[2]) = 5
    /\ ~pout[2][1].some /\ pout[2][2].some /\ ~pout[2][3].some
    /\ pout[2][4].some /\ ~pout[2][5].some

(***************************************************************************)
(* The frontier of parse_parallel                                          *)
(***************************************************************************)
\* The source with id i has been handed to parse_one.
ParsedSource(i) == parseCalls[sources[i + 1].file] >= 1

\* The files of the sources, by id.
FilesOf(srcs) == [i \in 1 .. Len(srcs) |-> srcs[i].file]

\* C31: in parse_parallel, at the start of every wave the sources with an id
\* below `start` have all been parsed and the sources from `start` on are
\* exactly the unparsed ones; the integration leaves the sources it found in
\* place and the next frontier is the suffix it appended; the loop stops
\* when, and only when, a wave appended nothing.
C31_FrontierIsUnparsedSuffix ==
    /\ [](pc = "par" =>
             /\ start <= Len(sources)
             /\ \A i \in 0 .. (Len(sources) - 1) : ParsedSource(i) <=> i < start)
    /\ [][(pc = "wave" /\ pc' = "par") =>
             /\ start' = Len(sources)
             /\ Len(sources') >= Len(sources)
             /\ SubSeq(FilesOf(sources'), 1, Len(sources)) = FilesOf(sources)
             /\ \A i \in Len(sources) .. (Len(sources') - 1) :
                   parseCalls'[sources'[i + 1].file] = 0]_vars
    /\ [][pc = "par" =>
             /\ pc' = "parsed" <=> start = Len(sources)
             /\ pc' = "wave" =>
                   (base' = start /\ start' = Len(sources)
                       /\ pending' = 0 .. (Len(sources) - start - 1))]_vars

\* The head of the second wave: two sources parsed, and a frontier of two
\* sources that the first integration appended.
C31_Witness ==
    /\ pc = "par"
    /\ start = 2
    /\ Len(sources) = 4
    /\ ParsedSource(0) /\ ParsedSource(1) /\ ~ParsedSource(2) /\ ~ParsedSource(3)


\* The sources but for their asts.
WithoutAsts(srcs) == [i \in 1 .. Len(srcs) |-> [file |-> srcs[i].file, imports |-> srcs[i].imports]]

\* The asts of the sources.
AstsOf(srcs) == [i \in 1 .. Len(srcs) |-> srcs[i].ast]

\* C32: while the tasks of a wave run, a step is a step of one task, which
\* emits an error, writes the ast of its own source or yields its imports;
\* no other task writes that source, and neither the length of
\* the sources vector nor any imports list changes; sources are appended and
\* imports pushed only by the integration, on one thread, after every task of
\* the wave has finished, and the integration writes no ast.
C32_TasksWriteOwnAst ==
    /\ [][(pc = "wave" /\ pending # {}) =>
             /\ pc' = "wave"
             /\ WithoutAsts(sources') = WithoutAsts(sources)
             /\ \E k \in pending :
                   /\ pending' \in {pending, pending \ {k}}
                   /\ base + k < Len(sources)
                   /\ \A i \in 1 .. Len(sources) : i # base + k + 1 => sources'[i] = sources[i]
                   /\ sources'[base + k + 1] # sources[base + k + 1] =>
                         sources[base + k + 1].ast = "none" /\ InParseOne(k)
                   /\ \A j \in 1 .. Len(taskOut) :
                         j # k + 1 => (taskOut'[j] = taskOut[j] /\ tasks'[j] = tasks[j])]_vars
    /\ [][(pc = "wave" /\ pending = {}) =>
             /\ pc' = "par"
             /\ SubSeq(AstsOf(sources'), 1, Len(sources)) = AstsOf(sources)]_vars
    /\ [][pc = "par" => sources' = sources]_vars

\* A wave of two tasks in which the second has finished while the first is
\* in resolve_imports, its ast stored and one error emitted: the imports of
\* the second wait for the integration.
C32_Witness ==
    /\ pc = "wave"
    /\ pending = {0}
    /\ Len(sources) = 2
    /\ Len(taskOut) = 2
    /\ Len(taskOut[2]) = 2
    /\ sources[2].ast = "some"
    /\ sources[2].imports = <<>>
    /\ sources[1].ast = "some"
    /\ tasks[1] = [stage |-> "resolving", emitted |-> 1]
    /\ nErrors = 1

\* C33: while the sources are loaded the vector only grows, by appending: an
\* id, once given, designates the same file until topo_sort runs, the ids
\* are the positions in the order of insertion, and every id stored in an
\* imports list is an index into the vector, at all times.
C33_IdsStableUntilSort ==
    /\ [](\A i \in 1 .. Len(sources) :
             \A k \in 1 .. Len(sources[i].imports) :
                 sources[i].imports[k][2] \in 0 .. (Len(sources) - 1))
    /\ [][pc # "topo_sort" =>
             /\ Len(sources') >= Len(sources)
             /\ SubSeq(FilesOf(sources'), 1, Len(sources)) = FilesOf(sources)
             /\ \A i \in 1 .. Len(sources) :
                   /\ Len(sources'[i].imports) >= Len(sources[i].imports)
                   /\ SubSeq(sources'[i].imports, 1, Len(sources[i].imports))
                         = sources[i].imports]_vars

\* One file was loaded and the loader gave the ids 1 and 2 to the files it
\* imports, in the order of the import items.
C33_Witness ==
    /\ pc = "parsed"
    /\ Len(initial) = 1
    /\ Len(sources) = 3
    /\ Len(sources[1].imports) = 2
    /\ sources[1].imports[1][2] = 1
    /\ sources[1].imports[2][2] = 2


(***************************************************************************)
(* resolve_imports on every text: one iteration of the loader on a source  *)
(* whose file holds any import directives, whether or not the file parses. *)
(***************************************************************************)
\* What a file may hold: it parses or not, and its text has the import
\* directives `items`, which are the items of the ast if there is one.
FileTexts ==
    [st : {"ok", "bad"}, items : SeqsUpTo(ItemKinds, MaxItems), rec : 0 .. MaxRecovered]

\* The sources after n files were loaded.
LoadedFiles(n) == [i \in 1 .. n |-> NewSource(i - 1)]

InitResolve ==
    /\ sess \in Sessions
    /\ content = [f \in Files |-> UnknownContent]
    /\ \E n \in 1 .. MaxLoad : sources = LoadedFiles(n) /\ initial = LoadedFiles(n)
    /\ pc = "resolve"
    /\ cur = 0 /\ start = 0 /\ base = 0 /\ pending = {} /\ taskOut = <<>>
    /\ tasks = <<>> /\ loadErrs = 0
    /\ nErrors = 0 /\ result = "none"
    /\ parseCalls = [f \in Files |-> 0]
    /\ loaderSteps = 0 /\ preSort = <<>>
    /\ lexer = "idle" /\ diags = <<>> /\ returned = <<>> /\ bumps = <<>>
    /\ callBumps = <<>> /\ lexStatus = "idle"
    /\ ParserIdle

\* The body of the loop of parse_sequential for the source i, whose file
\* holds c: parse_one, resolve_imports, add_import for what it yields.  The
\* errors resolve_imports emits go to `diags`, each as the id of the item
\* whose span it has.
ResolveStep(i) ==
    /\ pc = "resolve"
    /\ i < Len(sources)
    /\ \E c \in FileTexts :
          LET p == parse_one(sess.yul, c)
              r == resolve_imports(p.ast, c)
          IN /\ content' = [content EXCEPT ![sources[i + 1].file] = c]
             /\ sources' = parse_sequential_iter(sources, i, sess.yul, c).srcs
             /\ nErrors' = nErrors + p.errs + Len(r.errs)
             /\ diags' = r.errs
             /\ parseCalls' = [parseCalls EXCEPT ![sources[i + 1].file] = @ + 1]
    /\ cur' = i
    /\ pc' = "resolved"
    /\ UNCHANGED <<sess, start, base, pending, taskOut, tasks, loadErrs, result, initial,
                   preSort>>
    /\ UNCHANGED <<lexer, returned, bumps, callBumps, lexStatus>>
    /\ UNCHANGED parVars
    /\ loaderSteps' = loaderSteps + 1

NextResolve == \E i \in 0 .. (MaxLoad - 1) : ResolveStep(i)

SpecResolve == InitResolve /\ [][NextResolve]_vars

\* The text of the source that was parsed, and whether it has an ast.
ResolvedText == content[sources[cur + 1].file]
HasAst == ~sess.yul /\ ResolvedText.st = "ok"

\* The ids of the import items of the text, in item order: those that
\* resolve and those that do not.
ItemIds == [k \in 1 .. Len(ResolvedText.items) |-> k - 1]
ResolvableIds == SelectSeq(ItemIds, LAMBDA j : ResolvedText.items[j + 1] # Unres)
UnresolvableIds == SelectSeq(ItemIds, LAMBDA j : ResolvedText.items[j + 1] = Unres)

\* C34: for an import that does not resolve, resolve_imports emits one error
\* with the span of the import item, and there is no entry for it in the
\* imports of the importing source and no new source; the other imports of
\* the file are resolved all the same, in item order.  A source without an
\* ast (its parse failed) has no imports at all.
C34_UnresolvedImportSkipped ==
    pc = "resolved" =>
        LET imports == sources[cur + 1].imports
        IN /\ sources[cur + 1].ast = (IF HasAst THEN "some" ELSE "none")
           /\ diags = (IF HasAst THEN UnresolvableIds ELSE <<>>)
           /\ nErrors = Len(diags) + ResolvedText.rec
                          + (IF ResolvedText.st = "ok" THEN 0 ELSE 1)
           /\ Len(imports) = (IF HasAst THEN Len(ResolvableIds) ELSE 0)
           /\ \A n \in 1 .. Len(imports) :
                 /\ imports[n][1] = ResolvableIds[n]
                 /\ imports[n][2] \in 0 .. (Len(sources) - 1)
                 /\ sources[imports[n][2] + 1].file = ResolvedText.items[imports[n][1] + 1]
           /\ SubSeq(FilesOf(sources), 1, Len(initial)) = FilesOf(initial)
           /\ \A i \in 1 .. Len(sources) : \A j \in 1 .. Len(sources) :
                 sources[i].file = sources[j].file => i = j
           /\ \A i \in (Len(initial) + 1) .. Len(sources) :
                 \E n \in 1 .. Len(imports) : imports[n][2] = i - 1
           /\ \A i \in 1 .. Len(sources) : i # cur + 1 => sources[i].imports = <<>>

\* A file with three imports, the second of which does not resolve: one
\* error with the span of the second item, the first and the third import
\* recorded, two new sources.
C34_Witness ==
    /\ pc = "resolved"
    /\ HasAst
    /\ Len(initial) = 1
    /\ ResolvedText.items = <<2, Unres, 3>>
    /\ diags = <<1>>
    /\ sources[1].imports = <<(<<0, 1>>), (<<2, 2>>)>>
    /\ Len(sources) = 3

\* ---------------------------------------------------------------------------
\* The shape of the index-accessed paths
\* ---------------------------------------------------------------------------

\* The parser of the state at the k-th token of its input, from 0.
ParserAt(k) == [Parser0 EXCEPT !.i = k]

\* n_idents leading entries, all Member or one MemberTy, and then indices.
WellShaped(iap) ==
    /\ iap.n_idents >= 1
    /\ iap.n_idents <= Len(iap.path)
    /\ \/ \A k \in 1 .. iap.n_idents : iap.path[k][1] = "Member"
       \/ iap.n_idents = 1 /\ iap.path[1][1] = "MemberTy"
    /\ \A k \in iap.n_idents + 1 .. Len(iap.path) : iap.path[k][1] = "Index"

\* C35: wherever in the input parse_iap is called and succeeds, its path has
\* n_idents >= 1 leading entries that are all Member, or one MemberTy with
\* n_idents = 1, and only Index entries after them; try_parse_iap never
\* answers IndexAccessStructure, what it returns makes neither into_ty nor
\* into_expr panic, and the empty path it returns without parsing becomes no
\* type and no expression.
C35_IapShape ==
    \A k \in 0 .. Len(parser.toks) :
        LET iap == parse_iap(ParserAt(k))
            t == try_parse_iap(ParserAt(k))
        IN /\ iap.ok => WellShaped(iap.out)
           /\ t.ok =>
                /\ t.out.ty \in {"VariableDeclaration", "Expression"}
                /\ t.out.iap.path = <<>> \/ WellShaped(t.out.iap)
                /\ ~into_ty_panics(t.out.iap)
                /\ ~into_expr_panics(t.out.iap)
                /\ t.out.iap.path = <<>> =>
                      /\ t.out.iap.n_idents = 0
                      /\ into_ty(t.out.iap, t.P).ty = None
                      /\ into_expr(t.out.iap) = None

\* `x.y[3] y;` was parsed: two members and an index, a declaration.
C35_Witness ==
    /\ Parsed
    /\ parser.toks = <<"x", ".", "y", "[", "3", "]", "y", ";">>
    /\ pstatus = "ok"
    /\ Iap.ok
    /\ Iap.out.n_idents = 2
    /\ Len(Iap.out.path) = 3
    /\ Iap.out.path[1] = <<"Member", "x">>
    /\ Iap.out.path[2] = <<"Member", "y">>
    /\ Iap.out.path[3][1] = "Index"
    /\ try_parse_iap(Parser0).out.ty = "VariableDeclaration"

\* ---------------------------------------------------------------------------
\* Unknown characters between operators
\* ---------------------------------------------------------------------------

\* The texts of the examples: a reported character, a reported and a
\* swallowed one, and a U+00A0 that counts as whitespace.
Src_EqHashEq == <<"=", "#", "=">>
Src_EqHashHashEq == <<"=", "#", "#", "=">>
Src_NbspEqNbspEq == utf8(<<NBSP, "=", NBSP, "=">>)

\* The bump k skipped an unknown character.
SkippedUnknown(k) ==
    \E i \in 1 .. Len(bumps[k].skips) : bumps[k].skips[i].class = "unknown"

\* C36: an unknown character is a glue barrier: a bump that skipped one,
\* reported, swallowed or U+00A0 taken for whitespace, says it was preceded by
\* whitespace and is never glued to the pending token, and no token
\* next_token returns spans an unknown character; `=#=`, `=##=` and
\* `<U+00A0>=<U+00A0>=` give Eq, Eq, each with its own span.
C36_UnknownBarrier ==
    /\ \A k \in 1 .. Len(bumps) : SkippedUnknown(k) => bumps[k].pws
    /\ \A j \in 1 .. Len(returned) : \A k \in (FirstPart(j) + 1) .. LastPart(j) :
          ~SkippedUnknown(k)
    /\ lexer.override_span = <<>> =>
          \A j \in 1 .. Len(returned) : \A k \in 1 .. Len(AllSkips) :
              AllSkips[k].class = "unknown" => ~Inside(AllSkips[k], returned[j])
    /\ (Lexing(Src_EqHashEq) /\ LexedAll) =>
          /\ returned[1] = Tok("Eq", "", <<>>, <<0, 1>>)
          /\ returned[2] = Tok("Eq", "", <<>>, <<2, 3>>)
          /\ returned[3].kind = "Eof"
    /\ (Lexing(Src_EqHashHashEq) /\ LexedAll) =>
          /\ returned[1] = Tok("Eq", "", <<>>, <<0, 1>>)
          /\ returned[2] = Tok("Eq", "", <<>>, <<3, 4>>)
          /\ returned[3].kind = "Eof"
    /\ (Lexing(Src_NbspEqNbspEq) /\ LexedAll) =>
          /\ returned[1] = Tok("Eq", "", <<>>, <<2, 3>>)
          /\ returned[2] = Tok("Eq", "", <<>>, <<5, 6>>)
          /\ returned[3].kind = "Eof"

\* `<U+00A0>=<U+00A0>=` has been lexed to its end: the first U+00A0 was
\* reported, the second one was skipped in silence between the two `=`.
C36_Witness ==
    /\ Lexing(Src_NbspEqNbspEq)
    /\ LexedAll
    /\ Len(NonEof) = 2
    /\ NonEof[1].kind = "Eq" /\ NonEof[2].kind = "Eq"
    /\ Cardinality(NbspDiags) = 1
    /\ \E k \in 1 .. Len(bumps) :
          /\ SkippedUnknown(k) /\ bumps[k].diags = <<>> /\ bumps[k].tok.lo = 5

\* ---------------------------------------------------------------------------
\* The content range of the quoted literals
\* ---------------------------------------------------------------------------

\* The length of the prefix of the literal of bump k: 0, 3 (`hex`) or 7
\* (`unicode`).
PrefixLen(k) == QuoteAt(k) - src_index(lexer, bumps[k].tok.lo)

\* The content range cook_quoted takes for the literal of bump k is well
\* formed: start + 1 + prefix_len <= end - 1 <= end.
ContentRangeOk(k) ==
    /\ bumps[k].tok.lo + 1 + PrefixLen(k) <= bumps[k].tok.hi - 1
    /\ bumps[k].tok.hi - 1 <= bumps[k].tok.hi

\* C37 as stated: for every quoted literal that reaches cook_quoted,
\* terminated or not, start + 1 + prefix_len <= end - 1 <= end, and the slice
\* of the source for the content never fails, also for an unterminated
\* literal that is the opening quote only, with a prefix or without.
C37_ContentRangeWellFormed ==
    /\ lexStatus # "panic"
    /\ lexer.override_span = <<>> =>
          \A k \in 1 .. Len(bumps) : IsQuoted(k) => ContentRangeOk(k)

\* The text is a prefix or none and the opening quote.
QuoteOnly ==
    /\ lexer.src[Len(lexer.src)] = "\""
    /\ eat_while(lexer.src, 0, Letters) = Len(lexer.src) - 1

\* What holds of the code: the range is well formed for every literal that
\* has its closing quote and for every literal that was cooked, and the slice
\* fails exactly on a literal with no closing quote that is its opening quote
\* only (the range ends before it starts) or that ends with a character of
\* more than one byte (the range ends inside that character).
ContentRangeOkUnlessQuoteOnly ==
    /\ lexer.override_span = <<>> =>
          \A k \in 1 .. Len(bumps) : IsQuoted(k) => ContentRangeOk(k)
    /\ lexStatus = "panic" =>
          /\ bumps[Len(bumps)].unterm
          /\ QuoteOnly \/ lexer.src[Len(lexer.src)] = NBSP_CONT
    /\ \A k \in 1 .. Len(bumps) :
          (bumps[k].status = "ok" /\ bumps[k].unterm) =>
              ~QuoteOnly /\ lexer.src[Len(lexer.src)] # NBSP_CONT

\* ---------------------------------------------------------------------------
\* The else of nested if statements
\* ---------------------------------------------------------------------------

\* The texts of the examples: one else, two, and an inner if in a block.
Toks_IfIfElse ==
    <<"if", "(", "x", ")", "if", "(", "y", ")", "x", ";", "else", "break", ";">>
Toks_IfIfElseElse == Toks_IfIfElse \o <<"else", "continue", ";">>
Toks_IfBlockElse ==
    <<"if", "(", "x", ")", "{", "if", "(", "y", ")", "x", ";", "}", "else", "break", ";">>

\* In the if statements nested directly in s, by the true branch or by the
\* else branch, an if whose true branch is an if with no else has no else.
RECURSIVE ElseAtNearestIf(_)
ElseAtNearestIf(s) ==
    s[1] = "If" =>
        /\ (s[3][1] = "If" /\ ~s[3][4].some) => ~s[4].some
        /\ ElseAtNearestIf(s[3])
        /\ s[4].some => ElseAtNearestIf(s[4].v)

\* C38: an else attaches to the nearest preceding if that has no else yet:
\* an if statement whose true branch is an if statement with no else has no
\* else either; in `if (x) if (y) x; else break;` the else is the inner
\* if's and the outer if has none, a second else after it is the outer
\* if's, and an else after a block that holds the inner if is the outer if's.
C38_DanglingElse ==
    (Parsed /\ pstatus = "ok") =>
        /\ ElseAtNearestIf(pout)
        /\ HasPrefix(parser.toks, Toks_IfIfElse) =>
              /\ pout[1] = "If"
              /\ pout[3][1] = "If"
              /\ pout[3][3][1] = "Expr"
              /\ pout[3][4] = Some(<<"Break">>)
              /\ pout[4] = IF HasPrefix(parser.toks, Toks_IfIfElseElse)
                           THEN Some(<<"Continue">>) ELSE None
              /\ parser.i = IF HasPrefix(parser.toks, Toks_IfIfElseElse)
                            THEN Len(Toks_IfIfElseElse) ELSE Len(Toks_IfIfElse)
        /\ HasPrefix(parser.toks, Toks_IfBlockElse) =>
              /\ pout[1] = "If"
              /\ pout[3][1] = "Block"
              /\ pout[4] = Some(<<"Break">>)

\* `if (x) if (y) x; else break;` was parsed: the inner if has the else.
C38_Witness ==
    /\ parser.toks = Toks_IfIfElse
    /\ pstatus = "ok"
    /\ parser.i = Len(Toks_IfIfElse)
    /\ pout[1] = "If"
    /\ pout[3][1] = "If"
    /\ pout[3][4].some
    /\ ~pout[4].some

====
